---- MODULE Spec2Model ----
(***************************************************************************)
(* Model of thunderfish/tracker.py: the first-level sorting of fundamental *)
(* frequencies into fish trajectories, the filter of short trajectories,   *)
(* the rise detection, the cut at rises, the combination of trajectories,  *)
(* and the two orchestrations (fish_tracker, and the .npy branch of main). *)
(*                                                                         *)
(* Representation.                                                         *)
(*  - A frequency is an integer n, and stands for the float64 nearest to   *)
(*    n / 100 Hz; np.nan is NaN.  Frequencies are only copied, never       *)
(*    computed, so every frequency of a state is such a float.  Where the  *)
(*    code computes with frequencies, the model computes with the floats   *)
(*    (section float64).                                                   *)
(*  - A time is an integer number of seconds; all_times is the array of    *)
(*    timestamps, so detection_time_diff = all_times[1] - all_times[0] and *)
(*    dpm = 60. / detection_time_diff.  A tolerance given in minutes is an *)
(*    integer number s of seconds and stands for the float nearest to      *)
(*    s / 60; min_occure_time is an integer number n of 1/100 seconds and  *)
(*    stands for the float nearest to n / 6000 min.  A comparison of an    *)
(*    index with a window of whole seconds (dpm / 60. * 10) is written     *)
(*    multiplied out by the time step: the two sides differ by 1 / time    *)
(*    step or more unless the window is a whole number of steps, and then  *)
(*    the float of the window is this number.                              *)
(*  - A numpy array or Python list is a function with domain 0..n-1, so    *)
(*    indices in the model are the indices of the program.                 *)
(*  - np.argsort (quicksort) sorts an array of up to 16 elements by        *)
(*    insertion, which keeps equal elements in their order; in a longer    *)
(*    array the order of equal elements depends on the partitions and on   *)
(*    the build of numpy, and the model takes any order of them.           *)
(***************************************************************************)
EXTENDS Integers, Sequences, FiniteSets, TLC

VARIABLES
    \* inputs
    all_fundamentals,       \* per timestep, the array of candidate frequencies
    all_times,              \* the time axis
    freq_tolerance,         \* first_level_fish_sorting(freq_tolerance)
    prim_time_tolerance,    \* prim_time_tolerance, configured or given, in seconds
    rise_f_th,              \* detect_rises(rise_f_th)
    max_time_tolerance,     \* combine_fishes(max_time_tolerance), in seconds
    f_th,                   \* combine_fishes(f_th)
    \* control
    entry,                  \* the function that was called
    pc,                     \* the position in it
    \* first_level_fish_sorting
    enu, idx, clean_up_idx,
    fishes, last_fish_fundamentals, end_nans,
    \* exclude_fishes(min_occure_time), in 1/100 seconds
    min_occure_time,
    \* detect_rises
    all_rises, non_nan_idx, fish_rises,
    \* combine_fishes
    possible_combinations_all_fish,
    combination,            \* [fish, comp_fish] of the iteration (lines 441-442)
    \* history: samples deleted together with their fish
    removed,
    \* history: the fishes a stage was called with
    input_fishes,
    \* detect_peaks_troughs (peakdetection.py)
    data, threshold,
    index,                  \* the loop over enumerate(data)
    dir, min_inx, max_inx, min_value, max_value,
    peaks_list, troughs_list

inputVars == <<all_times, freq_tolerance, prim_time_tolerance, rise_f_th,
               max_time_tolerance, f_th, input_fishes>>
sortVars == <<enu, idx, clean_up_idx, last_fish_fundamentals, end_nans>>
riseVars == <<all_rises, non_nan_idx, fish_rises>>
combineVars == <<possible_combinations_all_fish, combination>>
laterVars == <<min_occure_time, riseVars, combineVars>>
peakVars == <<data, threshold, index, dir, min_inx, max_inx, min_value, max_value,
              peaks_list, troughs_list>>
vars == <<all_fundamentals, inputVars, entry, pc, sortVars, fishes, laterVars, removed,
          peakVars>>

\* the variables of detect_peaks_troughs while it is not called
NoPeakDetection ==
    /\ data = <<>>
    /\ threshold = 0
    /\ index = 0
    /\ dir = 0
    /\ min_inx = 0
    /\ max_inx = 0
    /\ min_value = 0
    /\ max_value = 0
    /\ peaks_list = <<>>
    /\ troughs_list = <<>>

----------------------------------------------------------------------------
(* Bounds of the model.                                                    *)

\* number of timesteps of a first-level sorting run
MaxSteps == 12
\* timesteps of a run whose candidates differ from the default stream
MaxDeviations == 2
\* number of timesteps of a run that shows the forgetting of a fish
ForgetSteps == 5

----------------------------------------------------------------------------
(* Arrays.                                                                 *)

NaN == -1
IsNaN(x) == x = NaN

Len0(a) == Cardinality(DOMAIN a)
Last0(a) == a[Len0(a) - 1]
Abs(x) == IF x < 0 THEN -x ELSE x
Min2(a, b) == IF a <= b THEN a ELSE b

\* the array of a sequence
Arr(s) == [k \in 0..(Len(s) - 1) |-> s[k + 1]]
\* np.full(n, v)
Full(n, v) == [k \in 0..(n - 1) |-> v]
\* list.append
Append0(a, x) == [k \in 0..Len0(a) |-> IF k < Len0(a) THEN a[k] ELSE x]
\* a[from:]
SliceFrom(a, from) == [k \in 0..(Len0(a) - from - 1) |-> a[k + from]]
\* the k-th smallest element of a set of integers, k from 0
Nth(K, k) == CHOOSE x \in K : Cardinality({y \in K : y < x}) = k
\* the elements of a at the positions of K, in order: a[mask]
Take(a, K) == [k \in 0..(Cardinality(K) - 1) |-> a[Nth(K, k)]]
\* np.arange(len(a))[~np.isnan(a)]
NonNanIdx(a) == {k \in DOMAIN a : ~IsNaN(a[k])}
\* len(a[~np.isnan(a)])
NonNanCount(a) == Cardinality(NonNanIdx(a))

\* the orders of the indices of S in which no index comes before one that
\* le puts strictly before it; <<i, j>> \in le: i may come before j
RECURSIVE SortIdxs(_, _)
SortIdxs(S, le) ==
    IF S = {} THEN {<<>>}
    ELSE UNION {{<<m>> \o rest : rest \in SortIdxs(S \ {m}, le)} :
                   m \in {i \in S : \A j \in S : <<i, j>> \in le}}
\* np.argsort sorts up to 16 elements by insertion, which keeps equal
\* elements in the order of the array; the order it leaves equal elements
\* of a longer array in depends on the numpy at hand
SmallSort == 16
\* i may come before j, of which neither is lower, in the result of
\* np.argsort of an array of length n
MayPrecede(i, j, n) == n > SmallSort \/ i <= j
\* np.argsort(a) of an array of integers
ArgSorts(a) ==
    LET le == {e \in (DOMAIN a) \X (DOMAIN a) :
                  \/ a[e[1]] < a[e[2]]
                  \/ a[e[1]] = a[e[2]] /\ MayPrecede(e[1], e[2], Len0(a))}
    IN  {Arr(s) : s \in SortIdxs(DOMAIN a, le)}

----------------------------------------------------------------------------
(* float64.  A float is written (a + e * 2^-q) / b: a / b is the number    *)
(* the program means (10.1 Hz is 1010 / 100), and e * 2^-q / b is what the *)
(* roundings have added to it.  The operators below round to nearest,      *)
(* ties to even, as the additions, subtractions, multiplications and       *)
(* divisions of numpy do; an error is far smaller than any difference      *)
(* between two of the numbers meant, so that it decides a comparison only  *)
(* where these are equal.                                                  *)

RECURSIVE GCD(_, _)
GCD(m, n) == IF n = 0 THEN m ELSE GCD(n, m % n)
LCM(m, n) == (m \div GCD(m, n)) * n
Sign(x) == IF x > 0 THEN 1 ELSE IF x < 0 THEN -1 ELSE 0
Max2(a, b) == IF a >= b THEN a ELSE b

\* np.nan in an array of floats
NanFloat == [a |-> 0, b |-> 0, e |-> 0, q |-> 0]
IsNanFloat(x) == x.b = 0
\* a whole number as a float
Whole(n) == [a |-> n, b |-> 1, e |-> 0, q |-> 0]

\* k with 2^k <= a / b < 2^(k+1)
RECURSIVE Binade(_, _)
Binade(a, b) ==
    IF a >= 2 * b THEN Binade(a, 2 * b) + 1
    ELSE IF a < b THEN Binade(2 * a, b) - 1
    ELSE 0
\* a / b = 2^k
IsPow2(a, b, k) == IF k >= 0 THEN a = b * 2^k ELSE a * 2^(-k) = b
\* the binade of x > 0, when k is the binade of x.a / x.b
BinadeBelow(x, k) == IF x.e < 0 /\ IsPow2(x.a, x.b, k) THEN k - 1 ELSE k
\* a * 2^q modulo m
RECURSIVE ShiftMod(_, _, _)
ShiftMod(a, q, m) ==
    IF q = 0 THEN a % m
    ELSE IF q >= 4 /\ m < 2^26 THEN (16 * ShiftMod(a, q - 4, m)) % m
    ELSE (2 * ShiftMod(a, q - 1, m)) % m

\* e * 2^k
Shift(e, k) == IF e = 0 THEN 0 ELSE e * 2^k

\* the same value in lowest terms
RECURSIVE LowExp(_, _)
LowExp(e, q) ==
    IF q >= 4 /\ e % 16 = 0 THEN LowExp(e \div 16, q - 4)
    ELSE IF q > 0 /\ e % 2 = 0 THEN LowExp(e \div 2, q - 1)
    ELSE <<e, q>>
WithError(a, b, l) == [a |-> a, b |-> b, e |-> l[1], q |-> l[2]]
Lowest(x, g) ==
    WithError(x.a \div g, x.b \div g,
              IF x.e = 0 THEN <<0, 0>> ELSE LowExp(x.e \div g, x.q))
Canon(x) == Lowest(x, GCD(GCD(Abs(x.a), x.b), Abs(x.e)))
\* s * x, s = 1 or s = -1
Signed(x, s) == [a |-> s * x.a, b |-> x.b, e |-> s * x.e, q |-> x.q]
IsNeg(x) == x.a < 0 \/ (x.a = 0 /\ x.e < 0)

\* x with its error e at the exponent q, moved to the nearest multiple
\* of d * 2^-q, the spacing of the floats of its binade; t2 is what x is
\* above an even multiple, s2 the sign of what was left out of x, a
\* product of two errors
Nearest(x, s2, q, d, e, t2) ==
    LET t == t2 % d
        up == IF 2 * t # d THEN 2 * t > d
              ELSE IF s2 # 0 THEN s2 > 0
              ELSE t2 >= d
    IN  [a |-> x.a, b |-> x.b, q |-> q,
         e |-> IF t = 0 THEN e ELSE IF up THEN e - t + d ELSE e - t]
RoundTo(x, s2, q, d) ==
    Nearest(x, s2, q, d, Shift(x.e, q - x.q),
            (ShiftMod(x.a, q, 2 * d) + Shift(x.e, q - x.q)) % (2 * d))
\* p: the floats of the binade of x are the multiples of 2^-p
RoundAt(x, s2, p) == RoundTo(x, s2, Max2(x.q, p), x.b * 2^(Max2(x.q, p) - p))
\* the float nearest to x >= 0; a value without a / b is the difference
\* of two floats that mean the same number, and is a float
RoundPos(x, s2) ==
    IF x.a = 0 THEN x ELSE RoundAt(x, s2, 52 - BinadeBelow(x, Binade(x.a, x.b)))
\* the float nearest to x
RoundSigned(x, s2, s) == Canon(Signed(RoundPos(Canon(Signed(x, s)), s * s2), s))
Round(x, s2) == RoundSigned(x, s2, IF x.a < 0 THEN -1 ELSE 1)

\* the float of a / b
Fl(a, b) == Round([a |-> a, b |-> b, e |-> 0, q |-> 0], 0)
\* the float of the frequency n, of a threshold of n / 100 Hz
Float(n) == IF IsNaN(n) THEN NanFloat ELSE Fl(n, 100)

\* x and y over one denominator l and one exponent q
AlignedTo(x, y, l, q) ==
    [b |-> l, q |-> q,
     xa |-> x.a * (l \div x.b), xe |-> Shift(x.e * (l \div x.b), q - x.q),
     ya |-> y.a * (l \div y.b), ye |-> Shift(y.e * (l \div y.b), q - y.q)]
Aligned(x, y) == AlignedTo(x, y, LCM(x.b, y.b), Max2(x.q, y.q))
\* x - y, x + y
AlignedDifference(z) == [a |-> z.xa - z.ya, b |-> z.b, e |-> z.xe - z.ye, q |-> z.q]
FloatSub(x, y) ==
    IF IsNanFloat(x) \/ IsNanFloat(y) THEN NanFloat
    ELSE Round(AlignedDifference(Aligned(x, y)), 0)
AlignedSum(z) == [a |-> z.xa + z.ya, b |-> z.b, e |-> z.xe + z.ye, q |-> z.q]
FloatAdd(x, y) ==
    IF IsNanFloat(x) \/ IsNanFloat(y) THEN NanFloat
    ELSE Round(AlignedSum(Aligned(x, y)), 0)
\* np.abs(x)
FloatAbs(x) == IF IsNeg(x) THEN Signed(x, -1) ELSE x
\* x * y
Product(x, y, q) ==
    [a |-> x.a * y.a, b |-> x.b * y.b, q |-> q,
     e |-> Shift(x.a * y.e, q - y.q) + Shift(y.a * x.e, q - x.q)]
FloatMul(x, y) ==
    IF IsNanFloat(x) \/ IsNanFloat(y) THEN NanFloat
    ELSE Round(Product(x, y, Max2(x.q, y.q)), Sign(x.e) * Sign(y.e))
\* x / y, y > 0
Quotient(x, y, q) ==
    [a |-> x.a * y.b * y.a, b |-> x.b * y.a * y.a, q |-> q,
     e |-> Shift(y.a * y.b * x.e, q - x.q) - Shift(x.a * y.b * y.e, q - y.q)]
CrossSign(z) == Sign(z.xa * z.ye - z.xe * z.ya)
FloatDiv(x, y) ==
    IF IsNanFloat(x) \/ IsNanFloat(y) THEN NanFloat
    ELSE Round(Quotient(x, y, Max2(x.q, y.q)), Sign(y.e) * CrossSign(Aligned(x, y)))
\* the sign of x - y
SignOfDifference(z) == IF z.xa # z.ya THEN Sign(z.xa - z.ya) ELSE Sign(z.xe - z.ye)
FloatCmp(x, y) == SignOfDifference(Aligned(x, y))
\* x < y, x <= y: False when one of them is nan
FloatLess(x, y) == ~IsNanFloat(x) /\ ~IsNanFloat(y) /\ FloatCmp(x, y) < 0
FloatLessEq(x, y) == ~IsNanFloat(x) /\ ~IsNanFloat(y) /\ FloatCmp(x, y) <= 0
\* np.abs(a - b) of the frequencies a and b
FloatDiff(a, b) == FloatAbs(FloatSub(Float(a), Float(b)))
\* the lower of two floats
FloatMin(x, y) == IF FloatLessEq(x, y) THEN x ELSE y

\* (n * 1.) // y of a whole number n and a float y > 0: the whole number
\* of n / y, which is below n / (y.a / y.b) when the error of y is positive
FloatFloorDiv(n, y) ==
    IF n > 0 /\ (n * y.b) % y.a = 0 /\ y.e > 0
    THEN (n * y.b) \div y.a - 1
    ELSE (n * y.b) \div y.a
\* the whole number of int(x), x >= 0
Floor(x) == (x.a \div x.b) - (IF x.a % x.b = 0 /\ x.e < 0 THEN 1 ELSE 0)
\* np.argsort(x)[mask] of an array of floats: the indices of S in the
\* orders np.argsort(x) may put them
FloatArgSorts(x, S) ==
    LET le == {e \in S \X S :
                  \/ FloatLess(x[e[1]], x[e[2]])
                  \/ x[e[1]] = x[e[2]] /\ MayPrecede(e[1], e[2], Len0(x))}
    IN  {Arr(s) : s \in SortIdxs(S, le)}

----------------------------------------------------------------------------
(* Time axis.                                                              *)

\* an axis of n timestamps from t0 with spacing dt
TimeAxis(t0, dt, n) == [k \in 0..(n - 1) |-> t0 + k * dt]
\* detection_time_diff = all_times[1] - all_times[0]
detection_time_diff == all_times[1] - all_times[0]
\* dpm = 60. / detection_time_diff, detections per minute
dpm == FloatDiv(Whole(60), Whole(detection_time_diff))
\* int(30 * dpm)
CleanUpPeriod == Floor(FloatMul(Whole(30), dpm))
\* dpm / 60. * secs: the steps of a window of secs seconds
Window(secs) == FloatMul(FloatDiv(dpm, Whole(60)), Whole(secs))
\* a tolerance of secs seconds, given in minutes
Minutes(secs) == Fl(secs, 60)

----------------------------------------------------------------------------
(* first_level_fish_sorting                                                *)

\* clean_up keeps the fishes with more than MinDetections non-nan entries
MinDetections == 10
\* prim_time_tolerance = np.inf: no fish is forgotten
Infinite == 1000 * 1000 * 1000
\* a timestep the sorting has not read yet
Unread == Arr(<<NaN>>)

\* the fishes clean_up() keeps
CleanUpKeep(fs) == {f \in DOMAIN fs : ~(NonNanCount(fs[f]) <= MinDetections)}

\* the candidate samples of a fish under construction: slot 0 is not a timestep
Detections(fish) == Cardinality({k \in DOMAIN fish : k >= 1 /\ ~IsNaN(fish[k])})
\* the candidate samples clean_up() deletes
CleanUpLoss(fs) ==
    LET gone == (DOMAIN fs) \ CleanUpKeep(fs)
        RECURSIVE Sum(_)
        Sum(S) == IF S = {} THEN 0
                  ELSE LET f == CHOOSE x \in S : TRUE
                       IN  Detections(fs[f]) + Sum(S \ {f})
    IN  Sum(gone)

\* lines 159-160: the fish of the first comparison, 0 Hz in slot 0
FirstFish == [k \in 0..Len0(all_fundamentals) |-> IF k = 0 THEN 0 ELSE NaN]

\* state at the call of first_level_fish_sorting (lines 156-165)
SortingStart ==
    /\ fishes = Arr(<<FirstFish>>)
    /\ last_fish_fundamentals = Arr(<<0>>)
    /\ end_nans = Arr(<<0>>)
    /\ clean_up_idx = CleanUpPeriod
    /\ enu = 0
    /\ idx = 0
    /\ removed = 0
    /\ min_occure_time = 0
    /\ all_rises = <<>>
    /\ non_nan_idx = <<>>
    /\ fish_rises = <<>>
    /\ possible_combinations_all_fish = <<>>
    /\ combination = <<>>
    /\ input_fishes = <<>>

\* top of the loop over the timesteps (lines 167-172): the periodic clean-up.
\* The candidates of the timestep are read here: an unread timestep takes
\* any array of the menu.
BeginStep(menu) ==
    /\ pc = "sort_loop"
    /\ enu < Len0(all_fundamentals)
    /\ \E c \in (IF all_fundamentals[enu] = Unread THEN menu
                 ELSE {all_fundamentals[enu]}) :
          all_fundamentals' = [all_fundamentals EXCEPT ![enu] = c]
    /\ IF enu = clean_up_idx
       THEN LET keep == CleanUpKeep(fishes)
            IN  /\ fishes' = Take(fishes, keep)
                /\ last_fish_fundamentals' = Take(last_fish_fundamentals, keep)
                /\ end_nans' = Take(end_nans, keep)
                /\ removed' = removed + CleanUpLoss(fishes)
                /\ clean_up_idx' = clean_up_idx + CleanUpPeriod
       ELSE UNCHANGED <<fishes, last_fish_fundamentals, end_nans, removed, clean_up_idx>>
    /\ idx' = 0
    /\ pc' = "sort_assign"
    /\ UNCHANGED <<peakVars, inputVars, entry, enu, laterVars>>

\* lines 175-179 and 187: the fishes whose last frequency tolerates
\* candidate f, in the orders tolerated_diff_idx[np.argsort(
\* last_detect_of_tolerated)] may have
ToleratedOrders(f) ==
    LET diff == [i \in DOMAIN last_fish_fundamentals |->
                    FloatDiff(last_fish_fundamentals[i], f)]
        tolerated == {i \in DOMAIN diff : FloatLess(diff[i], Float(freq_tolerance))}
        Orders(tolerated_diff_idx) ==
            LET last_detect_of_tolerated ==
                    [k \in DOMAIN tolerated_diff_idx |-> end_nans[tolerated_diff_idx[k]]]
            IN  {[k \in DOMAIN order |-> tolerated_diff_idx[order[k]]] :
                    order \in ArgSorts(last_detect_of_tolerated)}
    IN  UNION {Orders(tolerated_diff_idx) :
                  tolerated_diff_idx \in FloatArgSorts(diff, tolerated)}

NewFishMutant(f) == Full(Len0(all_fundamentals) + 1, NaN)
\* lines 182-183 and 196-197: the array of a fish that starts with candidate f
NewFish(f) == [Full(Len0(all_fundamentals) + 1, NaN) EXCEPT ![enu + 1] = f]

FreeSlotsMutant(order) == DOMAIN order
\* line 189: the tolerated fishes that have no frequency yet at this timestep
FreeSlots(order) == {k \in DOMAIN order : IsNaN(fishes[order[k]][enu + 1])}

\* one iteration of the loop over the candidates (lines 174-199)
Assign ==
    /\ pc = "sort_assign"
    /\ idx < Len0(all_fundamentals[enu])
    /\ \E order \in ToleratedOrders(all_fundamentals[enu][idx]) :
          LET f == all_fundamentals[enu][idx]
              free == FreeSlots(order)
          IN  IF free = {}
              THEN /\ fishes' = Append0(fishes, NewFish(f))
                   /\ last_fish_fundamentals' = Append0(last_fish_fundamentals, f)
                   /\ end_nans' = Append0(end_nans, 0)
              ELSE LET i == order[Nth(free, 0)]
                   IN  /\ fishes' = [fishes EXCEPT ![i][enu + 1] = f]
                       /\ last_fish_fundamentals' = [last_fish_fundamentals EXCEPT ![i] = f]
                       /\ end_nans' = [end_nans EXCEPT ![i] = 0]
    /\ idx' = idx + 1
    /\ UNCHANGED <<peakVars, all_fundamentals, inputVars, entry, pc, enu, clean_up_idx, removed, laterVars>>

\* fish_tracker passes no prim_time_tolerance: the default of line 113, 5 min
DefaultPrimTimeTolerance == 300
\* the prim_time_tolerance first_level_fish_sorting is called with: lines
\* 732-733 do not pass the configured one
PrimTimeTolerance ==
    IF entry \in {"fish_tracker", "main"} THEN DefaultPrimTimeTolerance
    ELSE prim_time_tolerance

ForgottenMutant(fish) ==
    \/ PrimTimeTolerance = Infinite
    \/ FloatLessEq(Whole(end_nans[fish]), FloatMul(Minutes(PrimTimeTolerance), dpm))
\* line 202: the fish has been absent for prim_time_tolerance * dpm steps
Forgotten(fish) ==
    /\ PrimTimeTolerance # Infinite
    /\ FloatLessEq(FloatMul(Minutes(PrimTimeTolerance), dpm), Whole(end_nans[fish]))

\* the loop over the fishes that ends a timestep (lines 201-206)
EndStep ==
    /\ pc = "sort_assign"
    /\ idx = Len0(all_fundamentals[enu])
    /\ last_fish_fundamentals' =
          [fish \in DOMAIN fishes |->
              IF Forgotten(fish) THEN 0 ELSE last_fish_fundamentals[fish]]
    /\ end_nans' =
          [fish \in DOMAIN fishes |->
              IF IsNaN(fishes[fish][enu + 1]) THEN end_nans[fish] + 1 ELSE end_nans[fish]]
    /\ enu' = enu + 1
    /\ pc' = "sort_loop"
    /\ UNCHANGED <<peakVars, all_fundamentals, inputVars, entry, idx, clean_up_idx, fishes, removed, laterVars>>

\* the end of first_level_fish_sorting (lines 209-223): the last clean-up,
\* the removal of slot 0, the removal of the fish of the first comparison.
\* fishes[0] of an empty list raises IndexError.
FinishSort ==
    /\ pc = "sort_loop"
    /\ enu = Len0(all_fundamentals)
    /\ LET kept == Take(fishes, CleanUpKeep(fishes))
           lost == CleanUpLoss(fishes)
           cut == [fish \in DOMAIN kept |-> SliceFrom(kept[fish], 1)]
       IN  IF Len0(cut) = 0
           THEN /\ pc' = "IndexError"
                /\ fishes' = kept
                /\ removed' = removed + lost
           ELSE IF cut[0][0] = 0
           THEN /\ pc' = "sorted"
                /\ fishes' = SliceFrom(cut, 1)
                /\ removed' = removed + lost + NonNanCount(cut[0])
           ELSE /\ pc' = "sorted"
                /\ fishes' = cut
                /\ removed' = removed + lost
    /\ UNCHANGED <<peakVars, all_fundamentals, inputVars, entry, sortVars, laterVars>>

----------------------------------------------------------------------------
(* exclude_fishes                                                          *)

\* min_occure_time of n / 100 seconds, given in minutes
MinOccure(n) == Fl(n, 6000)
\* lines 503-505: the fishes with at least min_occure_time * dpm
\* detections; moc is the float of min_occure_time
ExcludeKeepMutant(fs, moc) ==
    {fish \in DOMAIN fs :
        fish >= 1 /\ FloatLessEq(FloatMul(moc, dpm), Whole(NonNanCount(fs[fish])))}
ExcludeKeep(fs, moc) ==
    {fish \in DOMAIN fs : FloatLessEq(FloatMul(moc, dpm), Whole(NonNanCount(fs[fish])))}

\* the valid samples of the fishes of fs outside keep
RECURSIVE SamplesOutside(_, _)
SamplesOutside(fs, keep) ==
    LET gone == (DOMAIN fs) \ keep
    IN  IF gone = {} THEN 0
        ELSE LET f == CHOOSE x \in gone : TRUE
             IN  NonNanCount(fs[f]) + SamplesOutside(fs, keep \cup {f})

\* a call of exclude_fishes (lines 499-507)
ExcludeCall ==
    /\ entry = "exclude_fishes"
    /\ pc = "exclude"
    /\ LET keep_idx == ExcludeKeep(fishes, MinOccure(min_occure_time))
       IN  /\ fishes' = Take(fishes, keep_idx)
           /\ removed' = removed + SamplesOutside(fishes, keep_idx)
    /\ pc' = "excluded"
    /\ UNCHANGED <<peakVars, all_fundamentals, inputVars, entry, sortVars, laterVars>>

\* a call of exclude_fishes on what the first call returned
ExcludeAgain ==
    /\ entry = "exclude_fishes"
    /\ pc = "excluded"
    /\ LET keep_idx == ExcludeKeep(fishes, MinOccure(min_occure_time))
       IN  /\ fishes' = Take(fishes, keep_idx)
           /\ removed' = removed + SamplesOutside(fishes, keep_idx)
    /\ pc' = "excluded_again"
    /\ UNCHANGED <<peakVars, all_fundamentals, inputVars, entry, sortVars, laterVars>>

----------------------------------------------------------------------------
(* The orchestrations: fish_tracker, and the .npy branch of main, which    *)
(* loads the arrays first_level_fish_sorting saved (lines 218-221).        *)

Orchestrations == {"fish_tracker", "main"}

\* main, lines 839-841: the thresholds of the .npy branch
MainRiseFTh == 50
MainMaxTimeTolerance == 600
MainFTh == 500
\* lines 735-737 and 849-851: min_occure_time is capped at 1 min
MinOccureCap == 6000

\* the thresholds the later stages are called with
RiseFTh == IF entry = "main" THEN MainRiseFTh ELSE rise_f_th
MaxTimeTolerance == IF entry = "main" THEN MainMaxTimeTolerance ELSE max_time_tolerance
FTh == IF entry = "main" THEN MainFTh ELSE f_th

\* min_occure_time = all_times[-1] * 0.01 / 60., at most 1., in 1/100 seconds
MinOccureTime == Min2(Last0(all_times), MinOccureCap)
\* the float of it
MinOccureFloat ==
    LET product == FloatDiv(FloatMul(Whole(Last0(all_times)), Fl(1, 100)), Whole(60))
    IN  IF FloatLess(Whole(1), product) THEN Whole(1) ELSE product

\* fish_tracker lines 735-747, main lines 849-858: the filter of short
\* fishes; fish_tracker quits when no fish is left
Exclude ==
    /\ entry \in Orchestrations
    /\ pc = "sorted"
    /\ min_occure_time' = MinOccureTime
    /\ LET keep_idx == ExcludeKeep(fishes, MinOccureFloat)
       IN  /\ fishes' = Take(fishes, keep_idx)
           /\ removed' = removed + SamplesOutside(fishes, keep_idx)
    /\ pc' = IF entry = "fish_tracker" /\ Len0(fishes') = 0 THEN "quit" ELSE "detect_rises"
    /\ enu' = 0
    /\ all_rises' = <<>>
    /\ UNCHANGED <<peakVars, all_fundamentals, inputVars, entry, idx, clean_up_idx,
                   last_fish_fundamentals, end_nans, non_nan_idx, fish_rises,
                   combineVars>>

----------------------------------------------------------------------------
(* detect_rises                                                            *)

SetMax(S) == CHOOSE x \in S : \A y \in S : y <= x
SetMin(S) == CHOOSE x \in S : \A y \in S : x <= y

\* the k-th smallest value of a non-empty array, k from 0
KthValue(a, k) ==
    CHOOSE v \in {a[p] : p \in DOMAIN a} :
        /\ Cardinality({p \in DOMAIN a : a[p] < v}) <= k
        /\ Cardinality({p \in DOMAIN a : a[p] <= v}) > k
\* np.median(a) of a non-empty array of frequencies: the mean of the two
\* values in the middle, which are one value when the length is odd
MedianLo(a) == KthValue(a, (Len0(a) - 1) \div 2)
MedianHi(a) == KthValue(a, Len0(a) \div 2)
Median(a) == FloatDiv(FloatAdd(Float(MedianLo(a)), Float(MedianHi(a))), Whole(2))

\* line 292: a frequency less than 0.05 Hz above the median of what follows
PlateauDrop == 5
\* lines 271, 273, 298: the window after and before a peak, in seconds
PeakWindow == 10
\* line 288: the window after the end of a rise, in seconds
EndWindow == 30
\* line 285: the longest rise, 10 min, in seconds
MaxRiseDuration == 600
\* line 300: the gap that moves the start of a rise, dpm / 60 * 3 steps
StartGap == 3

\* a rise no call found: [[], []]
NoRise == Arr(<<Arr(<<>>), Arr(<<>>)>>)

\* line 271: np.arange(len(non_nan_idx[non_nan_idx <= non_nan_idx[-1] - dpm / 60. * 10]))
LoopIdxs(nn) ==
    0..(Cardinality({p \in DOMAIN nn :
            nn[p] * detection_time_diff <= Last0(nn) * detection_time_diff - PeakWindow}) - 1)

\* lines 273 and 288: the last position within secs seconds after position i
HelpIdx(nn, i, secs) ==
    SetMax({p \in DOMAIN nn :
               nn[p] * detection_time_diff < nn[i] * detection_time_diff + secs})

\* lines 275-279: every frequency of the window after position i is lower
PeakAt(fish, nn, i) ==
    LET help_idx == HelpIdx(nn, i, PeakWindow)
        idxs == {p \in DOMAIN nn : p >= i + 1 /\ p < help_idx}
    IN  /\ ~(Cardinality(idxs) * detection_time_diff < 1)
        /\ \A p \in idxs : fish[nn[p]] < fish[nn[i]]

\* lines 291-293: last_possibe, the frequency at position j is less than
\* 0.05 Hz above the median of the window after it; the median of no
\* frequency is nan
LastPossibe(fish, nn, j) ==
    LET help_idx == HelpIdx(nn, j, EndWindow)
        idxs2 == {p \in DOMAIN nn : p >= j + 1 /\ p < help_idx}
        after == [k \in 0..(Cardinality(idxs2) - 1) |-> fish[nn[Nth(idxs2, k)]]]
    IN  /\ idxs2 # {}
        /\ FloatLess(FloatSub(Float(fish[nn[j]]), Median(after)), Float(PlateauDrop))

\* lines 288-295: position j may end a rise
EndAt(fish, nn, j) ==
    LET help_idx == HelpIdx(nn, j, EndWindow)
        idxs2 == {p \in DOMAIN nn : p >= j + 1 /\ p < help_idx}
    IN  \/ \A p \in idxs2 : fish[nn[p]] >= fish[nn[j]]
        \/ nn[j] = Last0(nn)
        \/ LastPossibe(fish, nn, j)

\* line 296: ((non_nan_idx[j] - non_nan_idx[i]) * 1.) // (dpm / 60. * 30)
WindowsBetween(nn, i, j) == FloatFloorDiv(nn[j] - nn[i], Window(EndWindow))

FreqThMutant(nn, i, j, th) == Float(th)
\* line 296: freq_th
FreqTh(nn, i, j, th) ==
    FloatAdd(Float(th), FloatMul(Whole(WindowsBetween(nn, i, j)), Float(th)))

\* line 297: the drop from position i to position j is freq_th or more
RiseAbove(fish, nn, i, j, th) ==
    FloatLessEq(FreqTh(nn, i, j, th), FloatSub(Float(fish[nn[i]]), Float(fish[nn[j]])))

\* lines 282-287: the loop over j is left without a rise
Abort(fish, nn, i, j) ==
    \/ fish[nn[j]] >= fish[nn[i]]
    \/ (nn[j] - nn[i]) * detection_time_diff >= MaxRiseDuration

\* lines 281-295: the first position from j on where the loop over j
\* stops, or NaN
RECURSIVE FirstStop(_, _, _, _)
FirstStop(fish, nn, i, j) ==
    IF j \notin LoopIdxs(nn) THEN NaN
    ELSE IF Abort(fish, nn, i, j) \/ EndAt(fish, nn, j) THEN j
    ELSE FirstStop(fish, nn, i, j + 1)

\* lines 280-306: the position where the rise with peak i ends, or NaN
RiseEnd(fish, nn, i, th) ==
    LET j == FirstStop(fish, nn, i, i + 1)
    IN  IF IsNaN(j) THEN NaN
        ELSE IF Abort(fish, nn, i, j) THEN NaN
        ELSE IF RiseAbove(fish, nn, i, j, th) THEN j
        ELSE NaN

\* lines 298-304: the index where the rise with peak i starts: the last
\* index of the window before the peak that follows a gap of
\* dpm / 60 * 3 steps or more
RiseStart(nn, i) ==
    LET before == {p \in DOMAIN nn :
                      /\ nn[p] * detection_time_diff > nn[i] * detection_time_diff - PeakWindow
                      /\ nn[p] <= nn[i]}
        Gap(p) == IF p = SetMin(before)
                  THEN FloatSub(Whole(nn[p]), FloatSub(Whole(nn[i]), Window(PeakWindow)))
                  ELSE Whole(nn[p] - nn[p - 1])
        gap == Window(StartGap)
        shifted == {p \in before : FloatLessEq(gap, Gap(p))}
    IN  IF shifted # {} THEN nn[SetMax(shifted)] ELSE nn[i]

NoIndicesLeftMutant(nn) == nn
\* line 307: [non_nan_idx[-1]], the indices left when no rise was found
NoIndicesLeft(nn) == Arr(<<Last0(nn)>>)

\* lines 302 and 304: non_nan_idx[j+1:], the indices after the end of the rise
IndicesLeftMutant(nn, j) == SliceFrom(nn, j)
IndicesLeft(nn, j) == SliceFrom(nn, j + 1)

\* detect_single_rise (lines 271-307): the rise and the indices left, for
\* the first peak whose loop over j comes to a rise
DetectSingleRise(fish, nn, th) ==
    LET peaks == {i \in LoopIdxs(nn) :
                     PeakAt(fish, nn, i) /\ ~IsNaN(RiseEnd(fish, nn, i, th))}
    IN  IF peaks = {}
        THEN [rise_data |-> NoRise, non_nan_idx |-> NoIndicesLeft(nn)]
        ELSE LET i == SetMin(peaks)
                 j == RiseEnd(fish, nn, i, th)
                 start == RiseStart(nn, i)
             IN  [rise_data |-> Arr(<<Arr(<<start, nn[j]>>),
                                      Arr(<<fish[start], fish[nn[j]]>>)>>),
                  non_nan_idx |-> IndicesLeft(nn, j)]

\* line 322: the condition of the while loop
SearchOn(nn) ==
    (Last0(nn) - nn[0]) * detection_time_diff > PeakWindow + detection_time_diff

\* lines 325-327: a last record without rise is dropped
DropNoRise(rises) ==
    IF Len0(rises) > 0 /\ Last0(rises)[0] = Arr(<<>>)
    THEN Take(rises, 0..(Len0(rises) - 2))
    ELSE rises

\* lines 320-327: the rises of a fish, found from the indices nn on with
\* threshold th, after those of rises
RECURSIVE RisesOfFish(_, _, _, _)
RisesOfFish(fish, nn, rises, th) ==
    IF SearchOn(nn)
    THEN LET found == DetectSingleRise(fish, nn, th)
         IN  RisesOfFish(fish, found.non_nan_idx, Append0(rises, found.rise_data), th)
    ELSE DropNoRise(rises)

\* detect_rises (lines 309-330) of fishes that all hold a frequency
DetectRises(fs, th) ==
    [f \in DOMAIN fs |->
        RisesOfFish(fs[f], Take([k \in DOMAIN fs[f] |-> k], NonNanIdx(fs[f])), <<>>, th)]

\* lines 315-321: the next fish; non_nan_idx[-1] of a fish without a
\* frequency raises IndexError
BeginFish ==
    /\ pc = "detect_rises"
    /\ enu < Len0(fishes)
    /\ IF NonNanIdx(fishes[enu]) = {}
       THEN /\ pc' = "IndexError"
            /\ UNCHANGED <<non_nan_idx, fish_rises>>
       ELSE /\ pc' = "detect_single_rise"
            /\ non_nan_idx' = Take([k \in DOMAIN fishes[enu] |-> k], NonNanIdx(fishes[enu]))
            /\ fish_rises' = <<>>
    /\ UNCHANGED <<peakVars, all_fundamentals, inputVars, entry, enu, idx, clean_up_idx,
                   last_fish_fundamentals, end_nans, fishes, min_occure_time,
                   all_rises, combineVars, removed>>

\* lines 322-324: one call of detect_single_rise
DetectSingleRiseCall ==
    /\ pc = "detect_single_rise"
    /\ SearchOn(non_nan_idx)
    /\ LET found == DetectSingleRise(fishes[enu], non_nan_idx, RiseFTh)
       IN  /\ fish_rises' = Append0(fish_rises, found.rise_data)
           /\ non_nan_idx' = found.non_nan_idx
    /\ UNCHANGED <<peakVars, all_fundamentals, inputVars, entry, pc, sortVars, fishes,
                   min_occure_time, all_rises, combineVars, removed>>

\* lines 325-328: the rises of the fish are appended to all_rises
EndFish ==
    /\ pc = "detect_single_rise"
    /\ ~SearchOn(non_nan_idx)
    /\ all_rises' = Append0(all_rises, DropNoRise(fish_rises))
    /\ enu' = enu + 1
    /\ pc' = "detect_rises"
    /\ UNCHANGED <<peakVars, all_fundamentals, inputVars, entry, idx, clean_up_idx,
                   last_fish_fundamentals, end_nans, fishes, min_occure_time,
                   non_nan_idx, fish_rises, combineVars, removed>>

----------------------------------------------------------------------------
(* cut_at_rises                                                            *)

\* a + b of two lists
Concat0(a, b) ==
    [k \in 0..(Len0(a) + Len0(b) - 1) |-> IF k < Len0(a) THEN a[k] ELSE b[k - Len0(a)]]

CutTailMutant(fish, cut_idx) == [k \in DOMAIN fish |-> IF k > cut_idx THEN fish[k] ELSE NaN]
\* lines 527-528: the fish from cut_idx on
CutTail(fish, cut_idx) == [k \in DOMAIN fish |-> IF k >= cut_idx THEN fish[k] ELSE NaN]
\* line 529: the fish before cut_idx
CutHead(fish, cut_idx) == [k \in DOMAIN fish |-> IF k >= cut_idx THEN NaN ELSE fish[k]]

\* lines 525-531 for one fish: its rises from the last (position n - 1) to
\* the first; what is left of the fish, the new fishes, their rises
RECURSIVE CutFish(_, _, _)
CutFish(fish, rises, n) ==
    IF n = 0 THEN [fish |-> fish, new_fishes |-> <<>>, new_rises |-> <<>>]
    ELSE LET cut_idx == rises[n - 1][0][0]
             rest == CutFish(CutHead(fish, cut_idx), rises, n - 1)
         IN  [fish |-> rest.fish,
              new_fishes |-> Concat0(Arr(<<CutTail(fish, cut_idx)>>), rest.new_fishes),
              new_rises |-> Concat0(Arr(<<Arr(<<rises[n - 1]>>)>>), rest.new_rises)]

\* lines 523-531 for the fishes from the last (position n - 1) to the first
RECURSIVE CutAll(_, _, _)
CutAll(fs, rises, n) ==
    IF n = 0 THEN [fishes |-> fs, new_fishes |-> <<>>, new_rises |-> <<>>]
    ELSE LET one == CutFish(fs[n - 1], rises[n - 1], Len0(rises[n - 1]))
             rest == CutAll([fs EXCEPT ![n - 1] = one.fish], rises, n - 1)
         IN  [fishes |-> rest.fishes,
              new_fishes |-> Concat0(one.new_fishes, rest.new_fishes),
              new_rises |-> Concat0(one.new_rises, rest.new_rises)]

\* lines 532-536: the fishes that keep their place, with more than 10 detections
CutKeep(fs) == {fish \in DOMAIN fs : ~(NonNanCount(fs[fish]) <= MinDetections)}

\* cut_at_rises (lines 521-541), called when detect_rises has returned
CutAtRises ==
    /\ pc = "detect_rises"
    /\ enu = Len0(fishes)
    /\ LET cut == CutAll(fishes, all_rises, Len0(fishes))
           keep == CutKeep(cut.fishes)
           emptied == [fish \in DOMAIN fishes |-> <<>>]
       IN  /\ all_rises' = Concat0(Take(emptied, keep), cut.new_rises)
           /\ IF Len0(cut.new_fishes) = 0
              THEN /\ fishes' = cut.fishes
                   /\ removed' = removed
              ELSE /\ fishes' = Concat0(Take(cut.fishes, keep), cut.new_fishes)
                   /\ removed' = removed + SamplesOutside(cut.fishes, keep)
    /\ pc' = "combine"
    /\ UNCHANGED <<peakVars, all_fundamentals, inputVars, entry, sortVars, min_occure_time,
                   non_nan_idx, fish_rises, combineVars>>

----------------------------------------------------------------------------
(* combine_fishes                                                          *)

\* lines 423 and 445: the detections two fishes may have at the same time
MaxOverlap == 20

\* lines 381-384: occure_idx
FirstIdx(fs, fish) == SetMin(NonNanIdx(fs[fish]))
LastIdx(fs, fish) == SetMax(NonNanIdx(fs[fish]))
\* line 386: the occure_order np.argsort may return
OccureOrder(fs) == ArgSorts([fish \in DOMAIN fs |-> FirstIdx(fs, fish)])
\* np.where(occure_order == fish)[0][0]
OccurePos(occure_order, fish) == CHOOSE p \in DOMAIN occure_order : occure_order[p] = fish

\* lines 422-423 and 444-445: len(nan_test[~np.isnan(nan_test)])
Overlap(fs, fish, comp_fish) ==
    Cardinality(NonNanIdx(fs[fish]) \cap NonNanIdx(fs[comp_fish]))

\* line 396: the fish begins while comp_fish is present
BeginsWithin(fs, fish, comp_fish) ==
    /\ FirstIdx(fs, fish) > FirstIdx(fs, comp_fish)
    /\ FirstIdx(fs, fish) < LastIdx(fs, comp_fish)
\* line 408: the fish begins less than max_time_tolerance * dpm steps
\* after comp_fish ended
BeginsAfter(fs, fish, comp_fish) ==
    /\ FirstIdx(fs, fish) > LastIdx(fs, comp_fish)
    /\ FloatLess(Whole(FirstIdx(fs, fish) - LastIdx(fs, comp_fish)),
                FloatMul(Minutes(MaxTimeTolerance), dpm))

\* lines 399-406 and 410-417: compare_idxs[0], the end of the rise the fish
\* begins with, or its first index
CompareIdxOfFish(fs, rises, fish) ==
    LET x == {i \in DOMAIN rises[fish] : rises[fish][i][0][0] = FirstIdx(fs, fish)}
    IN  IF x # {} THEN rises[fish][SetMin(x)][0][1] ELSE FirstIdx(fs, fish)

\* compare_idxs[1]: the last index of comp_fish before it, or its last index
CompareIdxOfCompFish(fs, rises, fish, comp_fish) ==
    IF BeginsWithin(fs, fish, comp_fish)
    THEN SetMax({k \in NonNanIdx(fs[comp_fish]) : k < CompareIdxOfFish(fs, rises, fish)})
    ELSE LastIdx(fs, comp_fish)

\* line 420: alpha
Alpha == Fl(1, 100)

\* lines 395-428: possible_combinations[comp_fish] of the row of fish
PairCost(fs, rises, fish, comp_fish) ==
    IF ~(BeginsWithin(fs, fish, comp_fish) \/ BeginsAfter(fs, fish, comp_fish))
    THEN NanFloat
    ELSE LET c0 == CompareIdxOfFish(fs, rises, fish)
             c1 == CompareIdxOfCompFish(fs, rises, fish, comp_fish)
             a == fs[fish][c0]
             b == fs[comp_fish][c1]
         IN  IF IsNaN(a) \/ IsNaN(b) THEN NanFloat
             ELSE IF FloatLess(Float(FTh), FloatDiff(a, b)) THEN NanFloat
             ELSE IF Overlap(fs, fish, comp_fish) > MaxOverlap THEN NanFloat
             ELSE LET possible_freq_combinations == FloatDiff(a, b)
                      possible_idx_combinations == Whole(Abs(c0 - c1))
                  IN  FloatAdd(possible_freq_combinations,
                               FloatMul(FloatDiv(possible_idx_combinations,
                                                 FloatDiv(dpm, Whole(60))),
                                        Alpha))

\* lines 388-433: the row of fish holds the costs to the fishes that appear
\* before it; it is stored when the loop reaches comp_fish 0 (line 432),
\* with the costs found until then
RowStored(occure_order, fish, comp_fish) ==
    /\ OccurePos(occure_order, comp_fish) < OccurePos(occure_order, fish)
    /\ OccurePos(occure_order, 0) < OccurePos(occure_order, fish)
    /\ OccurePos(occure_order, 0) <= OccurePos(occure_order, comp_fish)

\* lines 379-433: the matrix that is built
PossibleCombinations(fs, rises, occure_order) ==
    [fish \in DOMAIN fs |-> [comp_fish \in DOMAIN fs |->
        IF RowStored(occure_order, fish, comp_fish)
        THEN PairCost(fs, rises, fish, comp_fish) ELSE NanFloat]]

\* the entries of the matrix that are not nan
Entries(m) == {e \in (DOMAIN m) \X (DOMAIN m) : ~IsNanFloat(m[e[1]][e[2]])}

\* lines 398 and 410: all_rises[fish] is read for a fish that may be
\* combined with one that appears before it; a list of rises shorter than
\* the list of fishes raises IndexError there
RisesMissing(fs, rises, occure_order) ==
    \E fish \in DOMAIN fs : \E comp_fish \in DOMAIN fs :
        /\ OccurePos(occure_order, comp_fish) < OccurePos(occure_order, fish)
        /\ BeginsWithin(fs, fish, comp_fish) \/ BeginsAfter(fs, fish, comp_fish)
        /\ fish >= Len0(rises)

\* lines 374-433: the matrix of the possible combinations;
\* non_nan_idx[0] of a fish without a frequency raises IndexError
CombineBuild ==
    /\ pc = "combine"
    /\ IF \E fish \in DOMAIN fishes : NonNanIdx(fishes[fish]) = {}
       THEN /\ pc' = "IndexError"
            /\ UNCHANGED possible_combinations_all_fish
       ELSE \E occure_order \in OccureOrder(fishes) :
               IF RisesMissing(fishes, all_rises, occure_order)
               THEN /\ pc' = "IndexError"
                    /\ UNCHANGED possible_combinations_all_fish
               ELSE /\ pc' = "combine_loop"
                    /\ possible_combinations_all_fish' =
                          PossibleCombinations(fishes, all_rises, occure_order)
    /\ UNCHANGED <<peakVars, all_fundamentals, inputVars, entry, sortVars, fishes,
                   min_occure_time, riseVars, combination, removed>>

\* the first entry, row by row, of a set of entries
FirstEntry(es) ==
    CHOOSE e \in es : \A o \in es : e[1] < o[1] \/ (e[1] = o[1] /\ e[2] <= o[2])

BestEntryMutant(m) ==
    FirstEntry({e \in Entries(m) :
                   \A o \in Entries(m) : FloatLessEq(m[o[1]][o[2]], m[e[1]][e[2]])})
\* lines 441-442: the first entry, row by row, that holds the minimum
BestEntry(m) ==
    FirstEntry({e \in Entries(m) :
                   \A o \in Entries(m) : FloatLessEq(m[e[1]][e[2]], m[o[1]][o[2]])})

RedirectMutant(m, fish, comp_fish) ==
    [i \in DOMAIN m |-> IF i = fish THEN Full(Len0(m[i]), NanFloat) ELSE m[i]]
\* lines 455-466: the costs to fish now point to comp_fish
Redirect(m, fish, comp_fish) ==
    LET Row(i) ==
            IF IsNanFloat(m[i][fish]) THEN m[i]
            ELSE IF \/ IsNanFloat(m[i][comp_fish])
                    \/ FloatLess(m[i][fish], m[i][comp_fish])
            THEN [[m[i] EXCEPT ![comp_fish] = m[i][fish]] EXCEPT ![fish] = NanFloat]
            ELSE [m[i] EXCEPT ![fish] = NanFloat]
    IN  [i \in DOMAIN m |-> IF i = fish THEN Full(Len0(m[i]), NanFloat) ELSE Row(i)]

ClearedMutant(m, fish, comp_fish) ==
    [i \in DOMAIN m |-> [j \in DOMAIN m |->
        IF i = comp_fish /\ j = fish THEN m[fish][comp_fish]
        ELSE IF i = fish /\ j = comp_fish THEN NanFloat ELSE m[i][j]]]
\* line 446: the cost of fish and comp_fish is given up
Cleared(m, fish, comp_fish) == [m EXCEPT ![fish][comp_fish] = NanFloat]

\* line 451: comp_fish with the frequencies of fish wherever fish has one
Combined(fish, comp_fish) ==
    [k \in DOMAIN comp_fish |-> IF IsNaN(fish[k]) THEN comp_fish[k] ELSE fish[k]]

\* lines 468-470: all_rises[fish] is read, and all_rises[comp_fish] when fish
\* has rises; a list of rises without that position raises IndexError
AppendFails(rises, fish, comp_fish) ==
    \/ fish >= Len0(rises)
    \/ rises[fish] # <<>> /\ comp_fish >= Len0(rises)

\* lines 468-471: the rises of fish now belong to comp_fish
Transferred(rises, fish, comp_fish) ==
    IF rises[fish] # <<>>
    THEN [[rises EXCEPT ![comp_fish] = Concat0(@, rises[fish])] EXCEPT ![fish] = <<>>]
    ELSE rises

\* one iteration of the while loop (lines 436-474); the IndexError of lines
\* 468-470 is raised when the fishes and the matrix have been changed
CombineStep ==
    /\ pc = "combine_loop"
    /\ Entries(possible_combinations_all_fish) # {}
    /\ combination' = BestEntry(possible_combinations_all_fish)
    /\ LET fish == BestEntry(possible_combinations_all_fish)[1]
           comp_fish == BestEntry(possible_combinations_all_fish)[2]
       IN  IF Overlap(fishes, fish, comp_fish) >= MaxOverlap
           THEN /\ possible_combinations_all_fish' =
                      Cleared(possible_combinations_all_fish, fish, comp_fish)
                /\ UNCHANGED <<pc, fishes, all_rises>>
           ELSE /\ fishes' =
                      [[fishes EXCEPT ![comp_fish] = Combined(fishes[fish], @)]
                          EXCEPT ![fish] = Full(Len0(fishes[fish]), NaN)]
                /\ possible_combinations_all_fish' =
                      Redirect(possible_combinations_all_fish, fish, comp_fish)
                /\ IF AppendFails(all_rises, fish, comp_fish)
                   THEN /\ pc' = "IndexError"
                        /\ UNCHANGED all_rises
                   ELSE /\ pc' = pc
                        /\ all_rises' = Transferred(all_rises, fish, comp_fish)
    /\ UNCHANGED <<peakVars, all_fundamentals, inputVars, entry, sortVars, min_occure_time,
                   non_nan_idx, fish_rises, removed>>

\* lines 480-485: the fishes that hold a frequency
ReturnIdxsMutant(fs) == {fish \in DOMAIN fs : NonNanCount(fs[fish]) > MinDetections}
ReturnIdxs(fs) == {fish \in DOMAIN fs : NonNanCount(fs[fish]) # 0}

\* line 483, from the last fish to the first: all_rises.pop(fish) of a list
\* that has no position fish any more raises IndexError
PopFails(rises, delete_idx) ==
    \E fish \in delete_idx :
        fish >= Len0(rises) - Cardinality({d \in delete_idx : d > fish})

\* lines 480-487: the fishes that were combined into others are dropped,
\* and their lists of rises
CombineFinish ==
    /\ pc = "combine_loop"
    /\ Entries(possible_combinations_all_fish) = {}
    /\ LET return_idxs == ReturnIdxs(fishes)
           delete_idx == (DOMAIN fishes) \ return_idxs
       IN  IF PopFails(all_rises, delete_idx)
           THEN /\ pc' = "IndexError"
                /\ UNCHANGED <<fishes, all_rises>>
           ELSE /\ pc' = "combined"
                /\ fishes' = Take(fishes, return_idxs)
                /\ all_rises' = Take(all_rises, (DOMAIN all_rises) \ delete_idx)
    /\ UNCHANGED <<peakVars, all_fundamentals, inputVars, entry, sortVars, min_occure_time,
                   non_nan_idx, fish_rises, combineVars, removed>>

----------------------------------------------------------------------------
(* Runs of first_level_fish_sorting on the stream of one fish with         *)
(* deviations: a drop-out, a second candidate close to the first, a        *)
(* candidate below freq_tolerance, a candidate far from the stream.  With  *)
(* a time step of 160 s the periodic clean-up is due at timestep 11.       *)

DefaultCandidates == Arr(<<1000>>)
DeviationMenu == {Arr(<<>>), Arr(<<1000, 1030>>), Arr(<<20>>), Arr(<<1100>>)}

\* the timesteps read so far whose candidates are not the default ones
Deviations(default) ==
    Cardinality({k \in DOMAIN all_fundamentals :
                    all_fundamentals[k] \notin {Unread, default}})

\* the arrays the next timestep may hold: the default, or one of the menu
\* as long as fewer than MaxDeviations timesteps deviate
MenuAround(default, menu) ==
    IF Deviations(default) < MaxDeviations THEN menu \cup {default} ELSE {default}

SortMenu == MenuAround(DefaultCandidates, DeviationMenu)

InitSort ==
    /\ NoPeakDetection
    /\ entry = "first_level_fish_sorting"
    /\ pc = "sort_loop"
    /\ all_fundamentals = Full(MaxSteps, Unread)
    /\ all_times = TimeAxis(0, 160, MaxSteps)
    /\ rise_f_th = 50
    /\ max_time_tolerance = 600
    /\ f_th = 500
    /\ freq_tolerance = 50
    /\ prim_time_tolerance \in {Infinite, 320}
    /\ SortingStart

NextSort ==
    \/ BeginStep(SortMenu)
    \/ Assign
    \/ EndStep
    \/ FinishSort

SpecSort == InitSort /\ [][NextSort]_vars

\* the valid samples of all trajectories
RECURSIVE TotalValid(_)
TotalValid(fs) ==
    IF Len0(fs) = 0 THEN 0
    ELSE NonNanCount(fs[0]) + TotalValid(SliceFrom(fs, 1))
\* the candidates of all timesteps
RECURSIVE TotalCandidates(_)
TotalCandidates(fund) ==
    IF Len0(fund) = 0 THEN 0
    ELSE Len0(fund[0]) + TotalCandidates(SliceFrom(fund, 1))

\* C2, as stated: with prim_time_tolerance infinite, the returned
\* trajectories hold as many valid samples as the input has candidates.
C2_Conservation ==
    (pc = "sorted" /\ prim_time_tolerance = Infinite)
        => TotalValid(fishes) = TotalCandidates(all_fundamentals)

\* C2, amended: with prim_time_tolerance infinite, the valid samples of the
\* returned trajectories and the candidate samples of the trajectories that
\* were deleted (by clean_up, for having at most 10 detections, or as the
\* fish of the first comparison) add up to the number of candidates.
C2_ConservationUpToCleanUp ==
    (pc = "sorted" /\ prim_time_tolerance = Infinite)
        => TotalValid(fishes) + removed = TotalCandidates(all_fundamentals)

\* a run has returned a trajectory and has deleted another that held a candidate
C2_Witness ==
    /\ pc = "sorted"
    /\ prim_time_tolerance = Infinite
    /\ Len0(fishes) >= 1
    /\ removed >= 1

\* the fishes that hold a frequency at the timestep being sorted
HoldersNow(fs) == {i \in DOMAIN fs : ~IsNaN(fs[i][enu + 1])}

\* C3: the assignment of a candidate writes it into one slot that was
\* absent (of an existing fish or of a new one) and changes no other slot,
\* so the candidates sorted so far at a timestep are held by as many fishes.
C3_WriteOnlyAbsentSlot ==
    [][(pc = "sort_assign" /\ idx' = idx + 1) =>
        LET f == all_fundamentals[enu][idx]
        IN  /\ DOMAIN fishes \subseteq DOMAIN fishes'
            /\ \E i \in DOMAIN fishes' :
                  /\ fishes'[i][enu + 1] = f
                  /\ i \in DOMAIN fishes => IsNaN(fishes[i][enu + 1])
                  /\ \A j \in DOMAIN fishes' : \A k \in DOMAIN fishes'[j] :
                        (j # i \/ k # enu + 1) =>
                            IF j \in DOMAIN fishes
                            THEN fishes'[j][k] = fishes[j][k]
                            ELSE IsNaN(fishes'[j][k])
            /\ Cardinality(HoldersNow(fishes')) = idx']_vars

\* two candidates of a timestep are tolerated by the same fish: the first is
\* written to it, the second starts a new fish
C3_Witness ==
    /\ pc = "sort_assign"
    /\ idx = 2
    /\ all_fundamentals[enu] = Arr(<<1000, 1030>>)
    /\ Cardinality(HoldersNow(fishes)) = 2
    /\ \E i \in DOMAIN fishes : fishes[i][enu + 1] = 1000 /\ fishes[i][enu] = 1000

----------------------------------------------------------------------------
(* Short runs of first_level_fish_sorting in which a fish is absent for    *)
(* longer than prim_time_tolerance.                                        *)

ForgetMenu == {Arr(<<>>), Arr(<<1000>>), Arr(<<20>>)}

InitForget ==
    /\ NoPeakDetection
    /\ entry = "first_level_fish_sorting"
    /\ pc = "sort_loop"
    /\ all_fundamentals = Full(ForgetSteps, Unread)
    /\ all_times = TimeAxis(0, 60, ForgetSteps)
    /\ rise_f_th = 50
    /\ max_time_tolerance = 600
    /\ f_th = 500
    /\ freq_tolerance = 50
    /\ prim_time_tolerance \in {60, 120}
    /\ SortingStart

NextForget ==
    \/ BeginStep(ForgetMenu)
    \/ Assign
    \/ EndStep
    \/ FinishSort

SpecForget == InitForget /\ [][NextForget]_vars

\* a trajectory (a fish started by a candidate, not the fish of the first
\* comparison) in the forgotten state: absent for prim_time_tolerance * dpm
\* steps, its last frequency reset
InForgottenState(i) ==
    /\ IsNaN(fishes[i][0])
    /\ last_fish_fundamentals[i] = 0
    /\ end_nans[i] * detection_time_diff >= PrimTimeTolerance

\* C4: the assignment of a candidate never writes to a trajectory in the
\* forgotten state.
C4_ForgottenReceivesNothing ==
    [][(pc = "sort_assign" /\ idx' = idx + 1) =>
        \A i \in DOMAIN fishes : InForgottenState(i) => fishes'[i] = fishes[i]]_vars

\* C11, as stated for first_level_fish_sorting: on input that has a
\* timestep without candidates the sorting raises no error.
C11_NoErrorOnEmptyTimestep ==
    (\E t \in DOMAIN all_fundamentals : Len0(all_fundamentals[t]) = 0)
        => pc # "IndexError"

----------------------------------------------------------------------------
(* Runs of first_level_fish_sorting on two simultaneous streams: stream a  *)
(* is the first candidate of every timestep, stream b the second.  The     *)
(* streams are 0.6 Hz apart; from one timestep to the next they keep their *)
(* frequencies or move by 0.1 Hz, 0.4 Hz or 0.5 Hz, or stream b alone      *)
(* moves by 0.1 Hz.                                                        *)

DefaultStreams == Arr(<<1000, 1060>>)
StreamMenu == {Arr(<<1010, 1070>>), Arr(<<1040, 1100>>), Arr(<<1050, 1110>>),
               Arr(<<1000, 1070>>)}

InitStreams ==
    /\ NoPeakDetection
    /\ entry = "first_level_fish_sorting"
    /\ pc = "sort_loop"
    /\ all_fundamentals = Full(MaxSteps, Unread)
    /\ all_times = TimeAxis(0, 160, MaxSteps)
    /\ rise_f_th = 50
    /\ max_time_tolerance = 600
    /\ f_th = 500
    /\ freq_tolerance = 50
    /\ prim_time_tolerance = 300
    /\ SortingStart

NextStreams ==
    \/ BeginStep(MenuAround(DefaultStreams, StreamMenu))
    \/ Assign
    \/ EndStep
    \/ FinishSort

SpecStreams == InitStreams /\ [][NextStreams]_vars

StreamA(t) == all_fundamentals[t][0]
StreamB(t) == all_fundamentals[t][1]
Steps == DOMAIN all_fundamentals

\* the input of C5: more than 10 timesteps of two candidates, the streams
\* more than freq_tolerance apart at every timestep, each stream within
\* freq_tolerance of its previous value
TwoStreams ==
    /\ Len0(all_fundamentals) > 10
    /\ \A t \in Steps : Len0(all_fundamentals[t]) = 2
    /\ \A t \in Steps : Abs(StreamA(t) - StreamB(t)) > freq_tolerance
    /\ \A t \in Steps \ {0} :
          /\ Abs(StreamA(t) - StreamA(t - 1)) <= freq_tolerance
          /\ Abs(StreamB(t) - StreamB(t - 1)) <= freq_tolerance

\* line 175-177: frequency f is within freq_tolerance of frequency g, as the
\* sorting computes it
Tolerated(f, g) == FloatLess(FloatDiff(g, f), Float(freq_tolerance))

\* what the sorting needs on top of it: a stream stays within freq_tolerance
\* of its previous value by the strict test of line 177 and is neither
\* within freq_tolerance of the previous value of the other stream nor of 0,
\* and no periodic clean-up is due within the first 10 timesteps
SeparatedStreams ==
    /\ \A t \in Steps \ {0} :
          /\ Tolerated(StreamA(t), StreamA(t - 1))
          /\ Tolerated(StreamB(t), StreamB(t - 1))
          /\ ~Tolerated(StreamA(t), StreamB(t - 1))
          /\ ~Tolerated(StreamB(t), StreamA(t - 1))
    /\ \A t \in Steps : ~Tolerated(StreamA(t), 0) /\ ~Tolerated(StreamB(t), 0)
    /\ CleanUpPeriod > MinDetections

\* two trajectories are returned and none holds samples of both streams
TwoTrajectoriesNoCross ==
    /\ pc = "sorted"
    /\ Len0(fishes) = 2
    /\ \A i \in DOMAIN fishes :
          \/ \A t \in NonNanIdx(fishes[i]) : fishes[i][t] = StreamA(t)
          \/ \A t \in NonNanIdx(fishes[i]) : fishes[i][t] = StreamB(t)

SortingEnded == pc \in {"sorted", "IndexError"}

\* C5, as stated: two streams that are more than freq_tolerance apart and
\* each within freq_tolerance of its previous value are returned as two
\* trajectories without cross-assignment.
C5_TwoStreams ==
    (SortingEnded /\ TwoStreams) => TwoTrajectoriesNoCross

\* C5, amended: two such streams whose values also stay within
\* freq_tolerance of their previous value by the strict test of the code
\* and are neither within freq_tolerance of the previous value of the other
\* stream nor of 0, with no periodic clean-up within the first 10
\* timesteps, are returned as two trajectories without cross-assignment.
C5_TwoSeparatedStreams ==
    (SortingEnded /\ TwoStreams /\ SeparatedStreams) => TwoTrajectoriesNoCross

\* two separated streams, one of which moves, have been sorted
C5_Witness ==
    /\ pc = "sorted"
    /\ TwoStreams
    /\ SeparatedStreams
    /\ \E t \in Steps : StreamB(t) # StreamB(0)
    /\ Len0(fishes) = 2

----------------------------------------------------------------------------
(* Calls of exclude_fishes, and of exclude_fishes on what it returned.     *)
(* Fish i of the list holds the frequency 10 * (i + 1) Hz at any of the    *)
(* timesteps; the time step is 60 s, so min_occure_time is worth 0, 1, 2   *)
(* or 2.5 detections.                                                      *)

\* number of timesteps of the fishes given to exclude_fishes
ExcludeSteps == 3
\* number of fishes given to exclude_fishes
MaxFishes == 3

\* the state of the variables a stage function does not use
StageStart ==
    /\ all_fundamentals = <<>>
    /\ freq_tolerance = 50
    /\ prim_time_tolerance = DefaultPrimTimeTolerance
    /\ rise_f_th = 50
    /\ max_time_tolerance = 600
    /\ f_th = 500
    /\ enu = 0
    /\ idx = 0
    /\ clean_up_idx = 0
    /\ last_fish_fundamentals = <<>>
    /\ end_nans = <<>>
    /\ non_nan_idx = <<>>
    /\ fish_rises = <<>>
    /\ possible_combinations_all_fish = <<>>
    /\ combination = <<>>
    /\ removed = 0
    /\ input_fishes = fishes

\* a fish that holds frequency f at the timesteps of present
FishAt(n, present, f) == [k \in 0..(n - 1) |-> IF k \in present THEN f ELSE NaN]

InitExclude ==
    /\ NoPeakDetection
    /\ entry = "exclude_fishes"
    /\ pc = "exclude"
    /\ all_times = TimeAxis(0, 60, ExcludeSteps)
    /\ min_occure_time \in {0, 6000, 12000, 15000}
    /\ \E n \in 0..MaxFishes :
          \E present \in [0..(n - 1) -> SUBSET (0..(ExcludeSteps - 1))] :
             fishes = [i \in 0..(n - 1) |-> FishAt(ExcludeSteps, present[i], 1000 * (i + 1))]
    /\ all_rises = <<>>
    /\ StageStart

NextExclude ==
    \/ ExcludeCall
    \/ ExcludeAgain

SpecExclude == InitExclude /\ [][NextExclude]_vars

\* C7: exclude_fishes, called with the same time axis and the same
\* min_occure_time on what it returned, returns the same fishes, in the
\* same order, with the same contents.
C7_ExcludeIdempotent ==
    [][(pc = "excluded" /\ pc' = "excluded_again") => fishes' = fishes]_vars

\* the first call dropped a fish of three, the second call returned two
C7_Witness ==
    /\ pc = "excluded_again"
    /\ Len0(input_fishes) = 3
    /\ Len0(fishes) = 2
    /\ removed >= 1

----------------------------------------------------------------------------
(* Calls of combine_fishes with two fishes that do not overlap: the        *)
(* earlier one at 500 Hz, the later one 0.5 Hz, 5 Hz or 6 Hz above, in     *)
(* either order in the list.  The time step is 120 s, so that              *)
(* max_time_tolerance = 10 min is worth 5 timesteps.  And calls with three *)
(* fishes, the second of which begins with a rise and follows the third,   *)
(* with a list of rises for each fish or for the first two only.           *)

\* number of timesteps of the fishes given to combine_fishes
CombineSteps == 8

\* a fish at the first timestep, one that begins with a rise at the last
\* timestep, and one at the timestep before it
ThreeFishes ==
    Arr(<<FishAt(CombineSteps, {0}, 50000),
          FishAt(CombineSteps, {CombineSteps - 1}, 50050),
          FishAt(CombineSteps, {CombineSteps - 2}, 50000)>>)
RiseAtLast ==
    Arr(<<Arr(<<Arr(<<CombineSteps - 1, CombineSteps - 1>>), Arr(<<50050, 50050>>)>>)>>)
ThreeFishesRises ==
    {Arr(<<<<>>, RiseAtLast, <<>>>>), Arr(<<<<>>, RiseAtLast>>)}

InitCombine ==
    /\ NoPeakDetection
    /\ entry = "combine_fishes"
    /\ pc = "combine"
    /\ all_times = TimeAxis(0, 120, CombineSteps)
    /\ min_occure_time = 0
    /\ \/ /\ \E a0, a1, b0, b1 \in 0..(CombineSteps - 1) :
                /\ a0 <= a1 /\ a1 < b0 /\ b0 <= b1
                /\ \E fb \in {50050, 50500, 50600} :
                      LET a == FishAt(CombineSteps, a0..a1, 50000)
                          b == FishAt(CombineSteps, b0..b1, fb)
                      IN  fishes \in {Arr(<<a, b>>), Arr(<<b, a>>)}
          /\ all_rises = Arr(<<<<>>, <<>>>>)
       \/ /\ fishes = ThreeFishes
          /\ all_rises \in ThreeFishesRises
    /\ StageStart

NextCombine ==
    \/ CombineBuild
    \/ CombineStep
    \/ CombineFinish

SpecCombine == InitCombine /\ [][NextCombine]_vars

\* fish later begins less than max_time_tolerance after fish earlier ended,
\* at a frequency within f_th of its last one
Combinable(fs, earlier, later) ==
    /\ LastIdx(fs, earlier) < FirstIdx(fs, later)
    /\ (FirstIdx(fs, later) - LastIdx(fs, earlier)) * detection_time_diff < max_time_tolerance
    /\ Abs(fs[later][FirstIdx(fs, later)] - fs[earlier][LastIdx(fs, earlier)]) <= f_th

\* C6, as stated: called with two fishes that do not overlap, the later one
\* beginning less than max_time_tolerance after the earlier one ended, at a
\* frequency within f_th, combine_fishes returns one fish that holds every
\* detection of both, whichever of the two comes first in the list.
C6_CombinesInEitherOrder ==
    (/\ entry = "combine_fishes"
     /\ pc = "combined"
     /\ Len0(input_fishes) = 2
     /\ Combinable(input_fishes, 0, 1) \/ Combinable(input_fishes, 1, 0))
        => /\ Len0(fishes) = 1
           /\ \A k \in DOMAIN fishes[0] :
                 fishes[0][k] = IF IsNaN(input_fishes[0][k])
                                THEN input_fishes[1][k] ELSE input_fishes[0][k]

----------------------------------------------------------------------------
(* Runs of fish_tracker and of the .npy branch of main.  The recording has *)
(* a time step of 3 s.  One fish is at 10 Hz, from the first timestep or   *)
(* from a later one; it may rise by 0.4 Hz, 0.8 Hz and 0.4 Hz at three     *)
(* timesteps in a row; a second fish at 20 Hz may be present during the    *)
(* first timesteps.  The analysis starts at 0 s, 5300 s or 6000 s of the   *)
(* recording, which makes min_occure_time worth 0.17, 17.84 or 20          *)
(* detections.  The configured rise_f_th is 0.5 Hz or 1 Hz.                *)
(* fish_tracker also runs with a threshold of 0, and                       *)
(* first_level_fish_sorting is also called on its own, with a              *)
(* freq_tolerance of 0 or with a time axis one timestamp too long.         *)

\* number of timesteps of a run of the whole analysis
PipeSteps == 18

Bump(d) == IF d = 0 \/ d = 2 THEN 40 ELSE IF d = 1 THEN 80 ELSE 0

PipeInput(rise, second, from) ==
    [k \in 0..(PipeSteps - 1) |->
        Arr((IF k < from THEN <<>> ELSE <<1000 + Bump(k - rise)>>)
            \o (IF k < second THEN <<2000>> ELSE <<>>))]

PipeInputs ==
    {PipeInput(rise, second, from) :
        rise \in (0..(PipeSteps - 3)) \cup {PipeSteps}, second \in {0, 12}, from \in {0, 5}}

WellFormed == [t0 |-> 0, extra |-> 0, freq_tolerance |-> 50, rise_f_th |-> 50,
               max_time_tolerance |-> 600, f_th |-> 500,
               prim_time_tolerance |-> DefaultPrimTimeTolerance]

\* the runs whose arrays the .npy branch of main loads
SavedSetups ==
    {WellFormed, [WellFormed EXCEPT !.t0 = 5300], [WellFormed EXCEPT !.t0 = 6000],
     [WellFormed EXCEPT !.rise_f_th = 100]}

\* the runs of fish_tracker
TrackerSetups ==
    SavedSetups \cup
        {[WellFormed EXCEPT !.freq_tolerance = 0],
         [WellFormed EXCEPT !.rise_f_th = 0],
         [WellFormed EXCEPT !.max_time_tolerance = 0],
         [WellFormed EXCEPT !.f_th = 0],
         [WellFormed EXCEPT !.prim_time_tolerance = 6]}

\* the calls of first_level_fish_sorting
SortingSetups ==
    {WellFormed,
     [WellFormed EXCEPT !.extra = 1],
     [WellFormed EXCEPT !.freq_tolerance = 0],
     [WellFormed EXCEPT !.prim_time_tolerance = 6]}

Setups(e) ==
    IF e = "main" THEN SavedSetups
    ELSE IF e = "fish_tracker" THEN TrackerSetups
    ELSE SortingSetups

Init ==
    /\ NoPeakDetection
    /\ entry \in Orchestrations \cup {"first_level_fish_sorting"}
    /\ pc = "sort_loop"
    /\ all_fundamentals \in PipeInputs
    /\ \E s \in Setups(entry) :
          /\ all_times = TimeAxis(s.t0, 3, PipeSteps + s.extra)
          /\ freq_tolerance = s.freq_tolerance
          /\ rise_f_th = s.rise_f_th
          /\ max_time_tolerance = s.max_time_tolerance
          /\ f_th = s.f_th
          /\ prim_time_tolerance = s.prim_time_tolerance
    /\ SortingStart

Next ==
    \/ BeginStep({})
    \/ Assign
    \/ EndStep
    \/ FinishSort
    \/ Exclude
    \/ BeginFish
    \/ DetectSingleRiseCall
    \/ EndFish
    \/ CutAtRises
    \/ CombineBuild
    \/ CombineStep
    \/ CombineFinish

Spec == Init /\ [][Next]_vars

\* the positions at which a stage has returned its fishes
StageReturned == {"sorted", "detect_rises", "detect_single_rise", "combine",
                  "combine_loop", "combined"}

\* C1, as stated: after each stage, every fish has as many slots as the
\* time axis has timestamps.
C1_SlotsOfTimeAxis ==
    pc \in StageReturned =>
        \A fish \in DOMAIN fishes : Len0(fishes[fish]) = Len0(all_times)

\* C8, as stated: no fish of the final output has fewer detections than
\* min_occure_time * dpm.
C8_FinalAboveMinOccure ==
    (entry \in Orchestrations /\ pc = "combined") =>
        \A fish \in DOMAIN fishes :
            NonNanCount(fishes[fish]) * detection_time_diff * 100 >= min_occure_time

\* the candidates and the time axis differ in length, or a threshold is
\* not positive
Malformed ==
    \/ Len0(all_fundamentals) # Len0(all_times)
    \/ freq_tolerance <= 0
    \/ rise_f_th <= 0
    \/ max_time_tolerance <= 0
    \/ f_th <= 0

\* C9, as stated: a run on malformed input is rejected before a stage has
\* made or changed a fish: the sorting holds nothing but the fish of the
\* first comparison, and no later stage is entered.
C9_MalformedRejected ==
    Malformed => (pc \in {"sort_loop", "sort_assign"} /\ fishes = Arr(<<FirstFish>>))

\* C10, as stated: rise detection, cut and combination never work on an
\* empty list of fishes: a run whose filter leaves no fish ends there.
C10_EmptyEndsRun ==
    (entry \in Orchestrations
        /\ pc \in {"detect_rises", "detect_single_rise", "combine", "combine_loop", "combined"})
        => Len0(fishes) > 0

\* detect_rises has returned
RisesDetected == pc = "detect_rises" /\ enu = Len0(fishes)

\* C12, as stated for the rise lists: from the same first-level fishes, the
\* .npy branch of main gets from detect_rises the rise lists fish_tracker
\* gets with the configured rise_f_th.
C12_ResumeAsInline ==
    (entry = "main" /\ RisesDetected) => all_rises = DetectRises(fishes, rise_f_th)

----------------------------------------------------------------------------
(* Runs of the .npy branch of main on given arrays: one fish at 10 Hz with *)
(* up to two rises, each a jump of the frequency that decays over the      *)
(* next timesteps, the first one fast or slow, by 0.8 Hz or 1.2 Hz, and    *)
(* possibly to a level 3 Hz higher that lasts until the second rise; the   *)
(* fish may have a gap of absent timesteps; a second fish at 20 Hz may     *)
(* hold a few detections only.  The time step is 1 s, 2 s or 3 s.          *)

\* number of timesteps of the arrays given to the .npy branch of main
ResumeSteps == 27

\* the frequency above its level m timesteps after a jump by h that decays
\* over s timesteps
Decay(h, s, m) == IF m >= 0 /\ m < s THEN (h * (s - m)) \div s ELSE 0

\* a fish at 10 Hz present at the timesteps of present, with a rise at p1
\* (by h1, over s1 timesteps, to a level l1 higher) and a rise at p2
RisingFish(present, p1, h1, s1, l1, p2) ==
    [k \in 0..(ResumeSteps - 1) |->
        IF k \notin present THEN NaN
        ELSE 1000 + (IF k >= p1 /\ k < p2 THEN l1 ELSE 0)
                  + Decay(h1, s1, k - p1) + Decay(80, 2, k - p2)]

AllSteps == 0..(ResumeSteps - 1)

\* two rises, time step 3 s
TwoRiseFiles ==
    {[dt |-> 3, fishes |-> Arr(<<RisingFish(AllSteps, p1, 80, 2, l1, p2)>>)] :
        p1 \in 0..ResumeSteps, l1 \in {0, 300}, p2 \in 0..ResumeSteps}

\* one slow rise, time step 3 s
SlowRiseFiles ==
    {[dt |-> 3, fishes |-> Arr(<<RisingFish(AllSteps, p1, slow[1], slow[2], 0, ResumeSteps)>>)] :
        p1 \in AllSteps, slow \in {<<80, 12>>, <<120, 12>>, <<140, 21>>}}

\* a rise, perhaps a second one five timesteps later, and a gap of one or
\* three timesteps, time step 1 s or 2 s
GapFiles ==
    {[dt |-> dt,
      fishes |-> Arr(<<RisingFish(AllSteps \ (g..(g + len - 1)), p1, 80, 2, 0, p1 + later)>>)] :
        dt \in {1, 2}, p1 \in AllSteps, later \in {5, ResumeSteps},
        g \in AllSteps, len \in {1, 3}}

\* a fish of a few detections, alone or after a fish of all timesteps
ShortFishFiles ==
    {[dt |-> 3, fishes |-> Concat0(long, Arr(<<FishAt(ResumeSteps, from..(from + n - 1), 2000)>>))] :
        long \in {<<>>, Arr(<<FishAt(ResumeSteps, AllSteps, 1000)>>)},
        from \in {0, 12}, n \in {1, 5, 11}}

\* two fishes, 10 Hz apart, with a rise each
TwoFishFiles ==
    {[dt |-> 3,
      fishes |-> Arr(<<RisingFish(AllSteps, p1, 80, 2, 0, ResumeSteps),
                       [k \in AllSteps |->
                           RisingFish(AllSteps, p2, 80, 2, 0, ResumeSteps)[k] + 1000]>>)] :
        p1 \in {5, 11}, p2 \in {3, 8, 14}}

\* two fishes 0.1 Hz apart, the second from timestep 2 on, while the first
\* is still there for 11, 19, 20 or 21 timesteps
OverlapFiles ==
    {[dt |-> 3,
      fishes |-> Arr(<<FishAt(ResumeSteps, 0..last, 1000),
                       FishAt(ResumeSteps, 2..(ResumeSteps - 1), 1010)>>)] :
        last \in {12, 20, 21, 22}}

\* four fishes of 11 timesteps each, one beginning while the one before it
\* is still there, in two orders of the list and some tenths of a Hz apart
ChainFiles ==
    {[dt |-> 3,
      fishes |-> Arr(<<FishAt(ResumeSteps, 0..10, 1000),
                       FishAt(ResumeSteps, starts[1]..(starts[1] + 10), f1),
                       FishAt(ResumeSteps, starts[2]..(starts[2] + 10), f2),
                       FishAt(ResumeSteps, starts[3]..(starts[3] + 10), 1030)>>)] :
        starts \in {<<5, 10, 16>>, <<16, 5, 10>>}, f1 \in {1010, 1040}, f2 \in {990, 1020}}

ResumeFiles ==
    TwoRiseFiles \cup SlowRiseFiles \cup GapFiles \cup ShortFishFiles \cup TwoFishFiles
        \cup OverlapFiles \cup ChainFiles

InitResume ==
    /\ NoPeakDetection
    /\ entry = "main"
    /\ pc = "sorted"
    /\ \E file \in ResumeFiles :
          /\ fishes = file.fishes
          /\ all_times = TimeAxis(0, file.dt, ResumeSteps)
    /\ min_occure_time = 0
    /\ all_rises = <<>>
    /\ StageStart

NextResume ==
    \/ Exclude
    \/ BeginFish
    \/ DetectSingleRiseCall
    \/ EndFish
    \/ CutAtRises
    \/ CombineBuild
    \/ CombineStep
    \/ CombineFinish

SpecResume == InitResume /\ [][NextResume]_vars

\* the same runs, and the calls of combine_fishes of SpecCombine, among them
\* the call with a list of rises shorter than the list of fishes
InitMerge == InitResume \/ InitCombine

SpecMerge == InitMerge /\ [][NextResume]_vars

\* the rises of one fish: each starts before it ends and after the end of
\* the one before it
RiseChain(rises) ==
    \A k \in DOMAIN rises :
        /\ rises[k][0][0] < rises[k][0][1]
        /\ k > 0 => rises[k][0][0] > rises[k - 1][0][1]

\* C13: the rises detect_rises returns for a fish form a strictly increasing
\* chain of indices: start before end, and start after the end of the rise
\* before it, also when the start was moved back from the peak.
C13_RisesFormChain ==
    RisesDetected => \A fish \in DOMAIN all_rises : RiseChain(all_rises[fish])

\* a second rise of a fish whose start is not its peak
C13_Witness ==
    /\ RisesDetected
    /\ \E fish \in DOMAIN all_rises : \E k \in DOMAIN all_rises[fish] :
          /\ k > 0
          /\ \E n \in all_rises[fish][k][0][0]..all_rises[fish][k][0][1] :
                fishes[fish][n] > all_rises[fish][k][1][0]

\* C14, as stated: after cut_at_rises and after combine_fishes the list of
\* rises has one entry per returned fish, and after cut_at_rises every rise
\* belongs to the fish whose first frequency is at the start of the rise.
C14_RiseListPerFish ==
    pc \in {"combine", "combined"} =>
        /\ Len0(all_rises) = Len0(fishes)
        /\ pc = "combine" =>
              \A fish \in DOMAIN all_rises : \A k \in DOMAIN all_rises[fish] :
                  FirstIdx(fishes, fish) = all_rises[fish][k][0][0]

\* C15: when the merging has finished, combine_fishes returns exactly the
\* fishes that still hold a frequency, in their order: the fishes that were
\* combined into others are dropped and no other fish is.
C15_ReturnsFishesWithSamples ==
    [][(pc = "combine_loop" /\ pc' = "combined") =>
          /\ Len0(fishes') = Cardinality({fish \in DOMAIN fishes : NonNanIdx(fishes[fish]) # {}})
          /\ \A fish \in DOMAIN fishes :
                NonNanIdx(fishes[fish]) # {} =>
                    \E kept \in DOMAIN fishes' :
                        /\ fishes'[kept] = fishes[fish]
                        /\ kept = Cardinality({f \in 0..(fish - 1) : NonNanIdx(fishes[f]) # {}})]_vars

\* combine_fishes has combined fishes and returned fewer than it was given
C15_Witness ==
    /\ pc = "combined"
    /\ Len0(fishes) < Len0(possible_combinations_all_fish)

\* C16, as stated: in what combine_fishes returns the rises of every fish
\* are ordered by their start index.
C16_RisesOrderedByStart ==
    pc = "combined" =>
        \A fish \in DOMAIN all_rises : \A k \in DOMAIN all_rises[fish] :
            k > 0 => all_rises[fish][k - 1][0][0] < all_rises[fish][k][0][0]

\* the frequency a fish had when it was last detected before this timestep
LastObserved(i) ==
    LET seen == {k \in 0..enu : ~IsNaN(fishes[i][k])}
    IN  IF seen = {} THEN NaN ELSE fishes[i][SetMax(seen)]

\* the fishes a candidate f may go to: not forgotten, last detected within
\* freq_tolerance of f, and without a frequency at this timestep
Eligible(f) ==
    {i \in DOMAIN fishes :
        /\ ~InForgottenState(i)
        /\ ~IsNaN(LastObserved(i))
        /\ Abs(LastObserved(i) - f) < freq_tolerance
        /\ IsNaN(fishes[i][enu + 1])}

\* the candidate f goes to an eligible fish of the smallest absence counter,
\* or starts a new fish if and only if there is no eligible fish
AssignedAsStated(f) ==
    IF Eligible(f) = {}
    THEN fishes' = Append0(fishes, NewFish(f))
    ELSE \E i \in Eligible(f) :
            /\ \A j \in Eligible(f) : end_nans[i] <= end_nans[j]
            /\ fishes' = [fishes EXCEPT ![i][enu + 1] = f]

\* C17, as stated: every candidate is assigned to the fish of the smallest
\* absence counter among the fishes whose last frequency is within
\* freq_tolerance of it and that have no frequency yet at this timestep; a
\* new fish is started if and only if there is none.
C17_AssignedToMostRecent ==
    [][(pc = "sort_assign" /\ idx' = idx + 1) =>
          AssignedAsStated(all_fundamentals[enu][idx])]_vars

\* the timesteps for which a fish has been absent when a timestep begins
Absence(i) == enu - SetMax({k \in 0..enu : ~IsNaN(fishes[i][k])})

\* C18, as stated: in a run of fish_tracker the absence counter of a fish is
\* the number of timesteps since it was last assigned, and the fish is
\* forgotten exactly when the counter exceeds the configured
\* prim_time_tolerance.
C18_ForgottenAfterConfigured ==
    (entry = "fish_tracker" /\ pc = "sort_loop") =>
        \A i \in DOMAIN fishes :
            /\ end_nans[i] = Absence(i)
            /\ IsNaN(fishes[i][0]) =>
                  (last_fish_fundamentals[i] = 0
                      <=> end_nans[i] * detection_time_diff > prim_time_tolerance)

\* a call of detect_single_rise has returned a rise
RiseReturned ==
    /\ pc = "detect_single_rise"
    /\ Len0(fish_rises') = Len0(fish_rises) + 1
    /\ Last0(fish_rises') # NoRise

\* C19: every rise detect_single_rise returns has a peak i, from which its
\* start is taken, and an end j with
\* value(i) - value(j) >= rise_f_th + floor((j - i) / 30 s) * rise_f_th.
C19_RisesAboveThreshold ==
    [][RiseReturned =>
          \E i \in DOMAIN non_nan_idx : \E j \in DOMAIN non_nan_idx :
              /\ i < j
              /\ PeakAt(fishes[enu], non_nan_idx, i)
              /\ Last0(fish_rises')[0][0] = RiseStart(non_nan_idx, i)
              /\ Last0(fish_rises')[0][1] = non_nan_idx[j]
              /\ fishes[enu][non_nan_idx[i]] - fishes[enu][non_nan_idx[j]] >=
                    RiseFTh + (((non_nan_idx[j] - non_nan_idx[i]) * detection_time_diff)
                                  \div EndWindow) * RiseFTh]_vars

\* a rise of 30 s or more was returned, from a peak after a higher frequency
\* that was too low for its distance from the end
C19_Witness ==
    /\ RisesDetected
    /\ \E fish \in DOMAIN all_rises : \E k \in DOMAIN all_rises[fish] :
          LET start == all_rises[fish][k][0][0]
              end == all_rises[fish][k][0][1]
          IN  /\ (end - start) * detection_time_diff >= EndWindow
              /\ start > 0
              /\ fishes[fish][start - 1] > fishes[fish][start]

\* the peaks the rise just returned may have been accepted at: the
\* frequencies of the 10 s after it are lower and it is high enough above
\* the end of the rise
PeaksOfReturned ==
    {i \in DOMAIN non_nan_idx :
        /\ PeakAt(fishes[enu], non_nan_idx, i)
        /\ \E j \in DOMAIN non_nan_idx :
              /\ i < j
              /\ Last0(fish_rises')[0][1] = non_nan_idx[j]
              /\ fishes[enu][non_nan_idx[i]] - fishes[enu][non_nan_idx[j]] >=
                    RiseFTh + (((non_nan_idx[j] - non_nan_idx[i]) * detection_time_diff)
                                  \div EndWindow) * RiseFTh}

\* the indices still to search that lie in the 10 s before peak i, i included
WindowBefore(i) ==
    {p \in DOMAIN non_nan_idx :
        /\ p <= i
        /\ non_nan_idx[p] * detection_time_diff > non_nan_idx[i] * detection_time_diff - 10}

\* those of them with no index in the secs seconds before, counted from
\* the index before or from the beginning of the 10 s
AfterGap(i, secs) ==
    {p \in WindowBefore(i) :
        IF p - 1 \in WindowBefore(i)
        THEN (non_nan_idx[p] - non_nan_idx[p - 1]) * detection_time_diff >= secs
        ELSE (non_nan_idx[p] - non_nan_idx[i]) * detection_time_diff + 10 >= secs}

\* the start of the rise just returned is the last index after a gap of
\* secs seconds in the 10 s before peak i, and peak i if there is none
StartAfterGap(i, secs) ==
    LET start == Last0(fish_rises')[0][0]
    IN  /\ IF AfterGap(i, secs) = {} THEN start = non_nan_idx[i]
           ELSE start = non_nan_idx[SetMax(AfterGap(i, secs))]
        /\ Last0(fish_rises')[1][0] = fishes[enu][start]

\* C20, as stated: the start of a rise is its peak, unless a gap of 3
\* minutes precedes the peak: then it is the first index after the gap;
\* the start frequency is the frequency at the start.
C20_StartAfterGapOfMinutes ==
    [][RiseReturned => \E i \in PeaksOfReturned : StartAfterGap(i, 180)]_vars

----------------------------------------------------------------------------
(* detect_rises in the .npy branch of main, on the fishes with two rises   *)
(* and on those of a few detections; the loops take their next step as     *)
(* long as they have one.                                                  *)

InitDetect ==
    /\ NoPeakDetection
    /\ entry = "main"
    /\ pc = "sorted"
    /\ \E file \in TwoRiseFiles \cup ShortFishFiles :
          /\ fishes = file.fishes
          /\ all_times = TimeAxis(0, file.dt, ResumeSteps)
    /\ min_occure_time = 0
    /\ all_rises = <<>>
    /\ StageStart

NextDetect ==
    \/ Exclude
    \/ BeginFish
    \/ DetectSingleRiseCall
    \/ EndFish

\* a call of detect_single_rise is enabled exactly when the condition of
\* the while loop holds (line 322)
CallEnabled == pc = "detect_single_rise" /\ SearchOn(non_nan_idx)

\* the guards of the other steps: exclude_fishes is called once the fishes
\* are loaded, the loop over the fishes (line 315) has a fish left, and the
\* while loop of line 322 is left
ExcludeEnabled == entry \in Orchestrations /\ pc = "sorted"
BeginEnabled == pc = "detect_rises" /\ enu < Len0(fishes)
EndEnabled == pc = "detect_single_rise" /\ ~SearchOn(non_nan_idx)

\* weak fairness of each step, written out with its guard for ENABLED
ExcludeFair == []<>(~ExcludeEnabled) \/ []<><<Exclude>>_vars
BeginFair == []<>(~BeginEnabled) \/ []<><<BeginFish>>_vars
CallFair == []<>(~CallEnabled) \/ []<><<DetectSingleRiseCall>>_vars
EndFair == []<>(~EndEnabled) \/ []<><<EndFish>>_vars

SpecDetectLive ==
    /\ InitDetect
    /\ [][NextDetect]_vars
    /\ ExcludeFair
    /\ BeginFair
    /\ CallFair
    /\ EndFair

\* C21: every call of detect_single_rise returns fewer indices than it was
\* given and at least one, and the loop of detect_rises over the calls for
\* a fish that holds a frequency comes to its end.
C21_DetectRisesTerminates ==
    /\ [][(pc = "detect_single_rise" /\ non_nan_idx' # non_nan_idx) =>
             /\ Len0(non_nan_idx') < Len0(non_nan_idx)
             /\ Len0(non_nan_idx') >= 1
             /\ \A p \in DOMAIN non_nan_idx' :
                   \E q \in DOMAIN non_nan_idx : non_nan_idx'[p] = non_nan_idx[q]]_vars
    /\ [][(pc = "detect_single_rise" /\ fish_rises' # fish_rises /\ pc' = pc) =>
             non_nan_idx' # non_nan_idx]_vars
    /\ (pc = "detect_single_rise") ~> (pc = "detect_rises")

\* after a rise, a call that found no rise has left a single index
C21_Witness ==
    /\ pc = "detect_single_rise"
    /\ Len0(fish_rises) >= 2
    /\ Last0(fish_rises) = NoRise
    /\ Len0(non_nan_idx) = 1

----------------------------------------------------------------------------
(* cut_at_rises and combine_fishes in the runs of the .npy branch of main. *)

\* cut_at_rises is called and returns
CutReturns == pc = "detect_rises" /\ pc' = "combine"

\* the start of rise r of a fish, and the index where its part of the fish
\* ends: the start of the next rise, or the end of the time axis
StartOf(fish, r) == all_rises[fish][r][0][0]
EndOfPart(fish, r) ==
    IF r + 1 < Len0(all_rises[fish]) THEN StartOf(fish, r + 1) ELSE Len0(fishes[fish])

\* the frequencies of a fish at the indices from..(to - 1), absent elsewhere
Part(fish, from, to) ==
    [k \in DOMAIN fishes[fish] |-> IF k >= from /\ k < to THEN fishes[fish][k] ELSE NaN]

\* what a fish keeps: its frequencies before its first rise
KeptPart(fish) ==
    IF Len0(all_rises[fish]) = 0 THEN fishes[fish] ELSE Part(fish, 0, StartOf(fish, 0))

\* the number of rises of all fishes
RECURSIVE RiseCount(_)
RiseCount(n) == IF n = 0 THEN 0 ELSE Len0(all_rises[n - 1]) + RiseCount(n - 1)

\* C22: cut_at_rises makes one new fish for every rise; the new fish of a
\* rise holds the frequencies of the fish from the start of the rise up to
\* the start of its next rise, or to the end of the time axis, and no
\* other; the fish itself keeps its frequencies before its first rise.
\* Every frequency is then in one fish, at its index.
C22_CutAtRiseStarts ==
    [][CutReturns =>
          LET new == RiseCount(Len0(fishes))
              old == Len0(fishes') - new
          IN  /\ old >= 0
              /\ \A fish \in DOMAIN fishes : \A r \in DOMAIN all_rises[fish] :
                    \E n \in old..(Len0(fishes') - 1) :
                        fishes'[n] = Part(fish, StartOf(fish, r), EndOfPart(fish, r))
              /\ \A n \in 0..(old - 1) :
                    \E fish \in DOMAIN fishes : fishes'[n] = KeptPart(fish)
              /\ \A fish \in DOMAIN fishes : \A k \in NonNanIdx(KeptPart(fish)) :
                    \A r \in DOMAIN all_rises[fish] :
                        k \notin NonNanIdx(Part(fish, StartOf(fish, r), EndOfPart(fish, r)))]_vars

\* a fish with two rises was cut into three
C22_Witness ==
    /\ pc = "combine"
    /\ Len0(input_fishes) = 1
    /\ Len0(fishes) = 3
    /\ \A fish \in DOMAIN fishes : NonNanIdx(fishes[fish]) # {}

\* C23, as stated: when cut_at_rises has returned, no fish has fewer than
\* 10 frequencies, and there are as many lists of rises as fishes.
C23_NoShortFishAfterCut ==
    pc = "combine" =>
        /\ \A fish \in DOMAIN fishes : NonNanCount(fishes[fish]) >= 10
        /\ Len0(all_rises) = Len0(fishes)

\* the matrix of combine_fishes has been built
MatrixBuilt == pc = "combine" /\ pc' = "combine_loop"

\* the cost of fish and comp_fish, nan if they do not pass the tests of
\* lines 396-423
CostOf(fish, comp_fish) == PairCost(fishes, all_rises, fish, comp_fish)

\* the fishes that appear before fish and pass the tests
Passing(fish) ==
    {comp_fish \in DOMAIN fishes :
        /\ FirstIdx(fishes, comp_fish) < FirstIdx(fishes, fish)
        /\ ~IsNanFloat(CostOf(fish, comp_fish))}

\* the entries of a row of the matrix that are not nan
RowEntries(row) == {comp_fish \in DOMAIN row : ~IsNanFloat(row[comp_fish])}

\* C24, as stated: when the matrix has been built, the row of a fish has
\* one entry, for the fish of the lowest cost among those that appear
\* before it and pass the tests, and none if no fish passes them.
C24_RowHoldsLowestCost ==
    [][MatrixBuilt =>
          \A fish \in DOMAIN fishes :
              LET row == possible_combinations_all_fish'[fish]
              IN  IF Passing(fish) = {} THEN RowEntries(row) = {}
                  ELSE \E best \in Passing(fish) :
                          /\ \A other \in Passing(fish) :
                                FloatLessEq(CostOf(fish, best), CostOf(fish, other))
                          /\ RowEntries(row) = {best}
                          /\ row[best] = CostOf(fish, best)]_vars

\* an iteration of the loop of combine_fishes over the lowest costs
Iteration == pc = "combine_loop" /\ pc' = "combine_loop"

\* C25, as stated: the two fishes of the entry chosen are combined whenever
\* they hold a frequency at the same time at no more than 20 indices;
\* otherwise the entry is cleared and nothing else changes.
C25_CombinedUpToOverlapCap ==
    [][Iteration =>
          LET fish == BestEntry(possible_combinations_all_fish)[1]
              comp_fish == BestEntry(possible_combinations_all_fish)[2]
          IN  IF Overlap(fishes, fish, comp_fish) <= 20
              THEN /\ NonNanIdx(fishes'[fish]) = {}
                   /\ NonNanIdx(fishes'[comp_fish]) =
                         NonNanIdx(fishes[fish]) \cup NonNanIdx(fishes[comp_fish])
              ELSE /\ possible_combinations_all_fish' =
                         [possible_combinations_all_fish EXCEPT ![fish][comp_fish] = NanFloat]
                   /\ UNCHANGED <<fishes, all_rises>>]_vars

\* a step of the loop that combines the chosen fish with its comp_fish
\* (lines 451-452), whether or not lines 468-470 raise after it
Merges ==
    /\ pc = "combine_loop"
    /\ pc' \in {"combine_loop", "IndexError"}
    /\ fishes' # fishes

Absorbed == {fish \in DOMAIN fishes : NonNanCount(fishes[fish]) = 0}

\* C27: when fish is combined with comp_fish, the row and the column of fish
\* are unset afterwards and every other row that had a cost for fish has for
\* comp_fish the smaller of its costs for fish and for comp_fish, also when
\* the rises of fish cannot be appended and the step ends in IndexError; no
\* cost of the matrix is in the row or the column of a fish that was
\* combined into another.
C27_MatrixFollowsMerges ==
    /\ [][Merges =>
            LET fish == BestEntry(possible_combinations_all_fish)[1]
                comp_fish == BestEntry(possible_combinations_all_fish)[2]
                before == possible_combinations_all_fish
                after == possible_combinations_all_fish'
            IN  /\ \A i \in DOMAIN after :
                      /\ IsNanFloat(after[fish][i])
                      /\ IsNanFloat(after[i][fish])
                /\ \A i \in DOMAIN before \ {fish} :
                      ~IsNanFloat(before[i][fish]) =>
                          after[i][comp_fish] =
                              IF IsNanFloat(before[i][comp_fish]) THEN before[i][fish]
                              ELSE FloatMin(before[i][fish], before[i][comp_fish])]_vars
    /\ [](pc = "combine_loop" =>
              \A e \in Entries(possible_combinations_all_fish) :
                  e[1] \notin Absorbed /\ e[2] \notin Absorbed)

\* a fish has been combined into another and costs are left in the matrix
C27_Witness ==
    /\ pc = "combine_loop"
    /\ Absorbed # {}
    /\ Entries(possible_combinations_all_fish) # {}

----------------------------------------------------------------------------
(* The loop of combine_fishes under the scheduling of the interpreter: an  *)
(* iteration that can run does run, and so does the code after the loop.   *)

\* line 437: the test of the while loop
EntriesLeft == pc = "combine_loop" /\ Entries(possible_combinations_all_fish) # {}
LoopDone == pc = "combine_loop" /\ Entries(possible_combinations_all_fish) = {}

StepFair == []<>(~EntriesLeft) \/ []<><<CombineStep>>_vars
FinishFair == []<>(~LoopDone) \/ []<><<CombineFinish>>_vars

SpecCombineLive == InitResume /\ [][NextResume]_vars /\ StepFair /\ FinishFair

\* C28: every iteration of the loop leaves fewer costs in the matrix than it
\* found, the loop is left only when no cost is left, and it is left.
C28_LoopTerminates ==
    /\ [][Iteration =>
            Cardinality(Entries(possible_combinations_all_fish')) <
                Cardinality(Entries(possible_combinations_all_fish))]_vars
    /\ [][(pc = "combine_loop" /\ pc' # "combine_loop") =>
            Entries(possible_combinations_all_fish) = {}]_vars
    /\ [][LoopDone => pc' # "combine_loop"]_vars
    /\ (pc = "combine_loop") ~> (pc # "combine_loop")

\* the loop has run twice and has a cost left
C28_Witness ==
    /\ EntriesLeft
    /\ Cardinality(Absorbed) >= 2

\* lines 441-442: the entry the iteration of a step acts on
Chosen == {combination'}

\* C29: the cost an iteration acts on is the lowest of the matrix, and no
\* cost of the matrix it leaves is lower, so that the costs chosen one after
\* the other never decrease.
C29_LowestCostFirst ==
    [][Iteration =>
          /\ \E e \in Chosen :
                \A other \in Entries(possible_combinations_all_fish) :
                    FloatLessEq(possible_combinations_all_fish[e[1]][e[2]],
                             possible_combinations_all_fish[other[1]][other[2]])
          /\ \A e \in Chosen :
                \A next \in Entries(possible_combinations_all_fish') :
                    FloatLessEq(possible_combinations_all_fish[e[1]][e[2]],
                             possible_combinations_all_fish'[next[1]][next[2]])]_vars

\* one fish has been combined and the matrix holds two different costs
C29_Witness ==
    /\ pc = "combine_loop"
    /\ Cardinality(Absorbed) = 1
    /\ \E e \in Entries(possible_combinations_all_fish) :
          \E other \in Entries(possible_combinations_all_fish) :
              FloatLess(possible_combinations_all_fish[e[1]][e[2]],
                       possible_combinations_all_fish[other[1]][other[2]])

----------------------------------------------------------------------------
(* detect_peaks_troughs (peakdetection.py) without time array and without  *)
(* check functions, on every array of up to MaxData values of 0..MaxValue  *)
(* and with every threshold of 1..MaxThreshold.                            *)

MaxData == 5
MaxValue == 3
MaxThreshold == 2

PeakFoundMutant(value) == max_value >= value
\* line 83: the value is threshold or more below the maximum
PeakFound(value) == max_value >= value + threshold

\* line 111: the value is threshold or more above the minimum
TroughFound(value) == value >= min_value + threshold

\* lines 72-148: one round of the loop over the data
PeakStep ==
    /\ pc = "peaks_loop"
    /\ index < Len0(data)
    /\ LET value == data[index]
       IN  IF dir > 0
           THEN IF value > max_value
                THEN /\ max_inx' = index
                     /\ max_value' = value
                     /\ UNCHANGED <<dir, min_inx, min_value, peaks_list, troughs_list>>
                ELSE IF PeakFound(value)
                THEN /\ peaks_list' = Append0(peaks_list, max_inx)
                     /\ min_inx' = index
                     /\ min_value' = value
                     /\ dir' = -1
                     /\ UNCHANGED <<max_inx, max_value, troughs_list>>
                ELSE UNCHANGED <<dir, min_inx, max_inx, min_value, max_value,
                                 peaks_list, troughs_list>>
           ELSE IF dir < 0
           THEN IF value < min_value
                THEN /\ min_inx' = index
                     /\ min_value' = value
                     /\ UNCHANGED <<dir, max_inx, max_value, peaks_list, troughs_list>>
                ELSE IF TroughFound(value)
                THEN /\ troughs_list' = Append0(troughs_list, min_inx)
                     /\ max_inx' = index
                     /\ max_value' = value
                     /\ dir' = 1
                     /\ UNCHANGED <<min_inx, min_value, peaks_list>>
                ELSE UNCHANGED <<dir, min_inx, max_inx, min_value, max_value,
                                 peaks_list, troughs_list>>
           ELSE /\ dir' = IF PeakFound(value) THEN -1
                          ELSE IF TroughFound(value) THEN 1 ELSE 0
                /\ IF max_value < value
                   THEN /\ max_inx' = index
                        /\ max_value' = value
                        /\ UNCHANGED <<min_inx, min_value>>
                   ELSE IF value < min_value
                   THEN /\ min_inx' = index
                        /\ min_value' = value
                        /\ UNCHANGED <<max_inx, max_value>>
                   ELSE UNCHANGED <<min_inx, max_inx, min_value, max_value>>
                /\ UNCHANGED <<peaks_list, troughs_list>>
    /\ index' = index + 1
    /\ UNCHANGED <<data, threshold, all_fundamentals, inputVars, entry, pc, sortVars,
                   fishes, laterVars, removed>>

\* line 150: the lists are returned when the data are through
PeakReturn ==
    /\ pc = "peaks_loop"
    /\ index = Len0(data)
    /\ pc' = "peaks_done"
    /\ UNCHANGED <<peakVars, all_fundamentals, inputVars, entry, sortVars, fishes,
                   laterVars, removed>>

\* lines 61-69: the state before the loop
InitPeaks ==
    /\ entry = "detect_peaks_troughs"
    /\ pc = "peaks_loop"
    /\ \E n \in 1..MaxData : data \in [0..(n - 1) -> 0..MaxValue]
    /\ threshold \in 1..MaxThreshold
    /\ index = 0
    /\ dir = 0
    /\ min_inx = 0
    /\ max_inx = 0
    /\ min_value = data[0]
    /\ max_value = data[0]
    /\ peaks_list = <<>>
    /\ troughs_list = <<>>
    /\ all_times = <<>>
    /\ fishes = <<>>
    /\ min_occure_time = 0
    /\ all_rises = <<>>
    /\ StageStart

NextPeaks ==
    \/ PeakStep
    \/ PeakReturn

SpecPeaks == InitPeaks /\ [][NextPeaks]_vars

\* the indices reported, peaks and troughs
Reported == {peaks_list[k] : k \in DOMAIN peaks_list} \cup
            {troughs_list[k] : k \in DOMAIN troughs_list}
IsPeak(i) == \E k \in DOMAIN peaks_list : peaks_list[k] = i
IsTrough(i) == \E k \in DOMAIN troughs_list : troughs_list[k] = i
\* two reported indices with no reported index between them
Adjacent(i, j) == i < j /\ ~\E between \in Reported : i < between /\ between < j

\* C30: the peaks and troughs detect_peaks_troughs returns take turns in
\* the order of their indices, each index is reported once, and the value of
\* a peak is at least the threshold above the value of the trough before it
\* and of the trough after it.
C30_PeaksAndTroughsAlternate ==
    pc = "peaks_done" =>
        /\ Cardinality(Reported) = Len0(peaks_list) + Len0(troughs_list)
        /\ \A i \in Reported : \A j \in Reported :
              Adjacent(i, j) =>
                  /\ IsPeak(i) <=> IsTrough(j)
                  /\ IsPeak(i) => data[i] >= data[j] + threshold
                  /\ IsPeak(j) => data[j] >= data[i] + threshold

\* a peak was returned between two troughs
C30_Witness ==
    /\ pc = "peaks_done"
    /\ Len0(peaks_list) >= 1
    /\ Len0(troughs_list) >= 2

====
